---- MODULE Spec2Model ----
(***************************************************************************)
(* Verification model of the detection-and-validation pipeline:            *)
(* validators (src/validators), the regex scanner, the merge/dedup engine  *)
(* and the risk aggregator (src/core/analyzer.py).                         *)
(*                                                                         *)
(* Strings are sequences of one-character strings.  Korean type labels of  *)
(* the source are written in ASCII:                                        *)
(*   "RRN" = jumin-deungnok-beonho, "RRN(suspect)" = the same label with   *)
(*   the "(uisim)" suffix, "DL" = unjeon-myeonheo-beonho, "CARD" =         *)
(*   kadeu-beonho, "ACCOUNT" = gyejwa-beonho, and so on.                   *)
(***************************************************************************)
EXTENDS Integers, Sequences, FiniteSets, TLC

VARIABLES
    value,      \* validators: the input string handed to the validator
    result,     \* validators: what the validator returned (NoResult before)
    orig,       \* card check: the verdict on the number before separators
                \* were inserted (NoResult until then)
    context,    \* account check: the text around the value
    subject_code,  \* account check: <<bank, code>> after
                   \* SubjectCodeExtractor.extract (NoResult before)
    scan_type,        \* scanner: index in PRIORITY_ORDER of the type being scanned
    scan_pos,         \* scanner: offset from which re.finditer goes on
    detected,         \* scanner: the list `detected`
    detected_ranges,  \* scanner: the list `detected_ranges`
    scan_event,       \* scanner: the last match handled and what became of it
    results,          \* dedup: the argument of _deduplicate_sensitive_results
    sorted_results,   \* dedup: the list `sorted_results`
    item_idx,         \* dedup: how many items of sorted_results the loop has
                      \* walked (0 before the sort, -1 after the return)
    deduplicated,     \* dedup: the list `deduplicated`
    seen_values,      \* dedup: the set `seen_values`
    dedup_event,      \* dedup: what became of the item walked last
    text,             \* masking: the argument `text` of mask_sensitive_info
    mask_items,       \* masking: its argument `detected_items`
    mask_idx,         \* masking: how many items the loop has walked (-1 after
                      \* the return)
    masked_text,      \* masking: the local `masked_text`
    offset,           \* masking: the local `offset`
    masked,           \* masking: the local `masked` of the last pass
    v2_doc,           \* llm detection: the argument `text` of detect_sensitive_info_v2
    v2_pc,            \* llm detection: "start", "loop" or "done" ("idle": not in use)
    chunks,           \* llm detection: the list `chunks`
    chunk_i,          \* llm detection: the loop index i
    calls,            \* llm detection: chunk numbers of the requests.post calls made
    responses,        \* llm detection: what the classifier did on each call
    contrib,          \* llm detection: chunk_results of each call
    all_results,      \* llm detection: the list `all_results`
    v2_return,        \* llm detection: how the function ended (NoResult before)
    codef_pc,         \* codef client: "ready", "token", "post", "parse" ("idle": not in use)
    _token,           \* codef client: self._token ("" for None)
    token_reply,      \* codef client: what the token endpoint did in this call
                      \* (NoResult if it was not asked)
    api_reply,        \* codef client: what the API endpoint did in this call
    api_response,     \* codef client: what _make_request returned
    codef_result,     \* codef client: how verify_driver_license ended
    codef_calls,      \* codef client: calls of verify_driver_license begun
    patterns,         \* user patterns: the list self.patterns
    upm_event,        \* user patterns: <<operation, what it returned>> of the last call
    scan_errors,      \* user patterns: the patterns on which the last
                      \* detect_in_text caught an exception
    located,          \* anchoring: the span made of the last classifier item,
                      \* with the chunk, offset and value it was made from
    split_doc,        \* chunking: the text being split (its length and breaks)
    split_pc,         \* chunking: "idle", "loop" (in the while loop) or "done"
    split_start,      \* chunking: the local start
    split_chunks,     \* chunking: the local chunks
    comp_pc,          \* analysis: the stage comprehensive_analysis is at ("idle": not in use)
    comp_doc,         \* analysis: the argument text and what finditer yields on it
    comp_env,         \* analysis: what the classifier and the pattern manager do in this run
    regex_detected,   \* analysis: the local regex_detected
    sensitive_detected,     \* analysis: the local sensitive_detected
    confidential_detected,  \* analysis: the local confidential_detected
    user_pattern_detected,  \* analysis: the local user_pattern_detected
    all_detected,     \* analysis: the local all_detected
    comp_analysis,    \* analysis: the local analysis_result (NoResult before)
    detected_items,   \* risk: the list handed to _create_analysis_from_detected
    analysis_result,  \* risk: the dict `analysis_result` (NoResult before)
    prev_result,      \* risk: the analysis of the list before a span was added
    llm_analysis      \* risk: what analyze_with_llm returned (NoResult before)

validatorVars == <<value, result, orig, context, subject_code>>
scanVars == <<scan_type, scan_pos, detected, detected_ranges, scan_event>>
dedupVars ==
    <<results, sorted_results, item_idx, deduplicated, seen_values, dedup_event>>
riskVars == <<detected_items, analysis_result, prev_result, llm_analysis>>
maskVars == <<text, mask_items, mask_idx, masked_text, offset, masked>>
v2Vars == <<v2_doc, v2_pc, chunks, chunk_i, calls, responses, contrib,
      all_results, v2_return>>
codefVars == <<codef_pc, _token, token_reply, api_reply, api_response,
      codef_result, codef_calls>>
upmVars == <<patterns, upm_event, scan_errors>>
anchorVars == <<located>>
splitVars == <<split_doc, split_pc, split_start, split_chunks>>
compVars == <<comp_pc, comp_doc, comp_env, regex_detected, sensitive_detected,
      confidential_detected, user_pattern_detected, all_detected, comp_analysis>>
vars == <<validatorVars, scanVars, dedupVars, riskVars, maskVars, v2Vars, codefVars, upmVars, anchorVars, splitVars, compVars>>

NoResult == <<>>

\* the variables of a component that takes no part in a specification
ValidatorsIdle ==
    /\ value = <<>> /\ result = NoResult /\ orig = NoResult
    /\ context = <<>> /\ subject_code = NoResult
ScannerIdle ==
    /\ scan_type = 0 /\ scan_pos = 0 /\ detected = <<>>
    /\ detected_ranges = <<>> /\ scan_event = <<>>
DedupIdle ==
    /\ results = <<>> /\ sorted_results = <<>> /\ item_idx = 0
    /\ deduplicated = <<>> /\ seen_values = {} /\ dedup_event = <<>>
MaskIdle ==
    /\ text = <<>> /\ mask_items = <<>> /\ mask_idx = 0
    /\ masked_text = <<>> /\ offset = 0 /\ masked = <<>>
V2Idle ==
    /\ v2_doc = NoResult /\ v2_pc = "idle" /\ chunks = <<>> /\ chunk_i = 0
    /\ calls = <<>> /\ responses = <<>> /\ contrib = <<>>
    /\ all_results = <<>> /\ v2_return = NoResult
CodefIdle ==
    /\ codef_pc = "idle" /\ _token = "" /\ token_reply = NoResult
    /\ api_reply = NoResult /\ api_response = NoResult
    /\ codef_result = NoResult /\ codef_calls = 0
UpmIdle ==
    /\ patterns = <<>> /\ upm_event = <<"idle">> /\ scan_errors = {}
AnchorIdle ==
    /\ located = NoResult
SplitIdle ==
    /\ split_doc = NoResult /\ split_pc = "idle"
    /\ split_start = 0 /\ split_chunks = <<>>
CompIdle ==
    /\ comp_pc = "idle" /\ comp_doc = NoResult /\ comp_env = NoResult
    /\ regex_detected = <<>> /\ sensitive_detected = <<>>
    /\ confidential_detected = <<>> /\ user_pattern_detected = <<>>
    /\ all_detected = <<>> /\ comp_analysis = NoResult
RiskIdle ==
    /\ detected_items = <<>> /\ analysis_result = NoResult
    /\ prev_result = NoResult /\ llm_analysis = NoResult

(***************************************************************************)
(* Characters and strings                                                  *)
(***************************************************************************)
DigitChars == <<"0", "1", "2", "3", "4", "5", "6", "7", "8", "9">>

Range(s) == {s[i] : i \in 1..Len(s)}

\* str.isdigit() for one character
IsDigitChar(c) == c \in Range(DigitChars)

\* int(c) for a digit character
int(c) == (CHOOSE i \in 1..10 : DigitChars[i] = c) - 1

\* a digit string from its digits
Digs(ds) == [i \in 1..Len(ds) |-> DigitChars[ds[i] + 1]]

\* int(s) for a non-empty digit string
RECURSIVE ToInt(_)
ToInt(s) == IF Len(s) = 0 THEN 0
            ELSE 10 * ToInt(SubSeq(s, 1, Len(s) - 1)) + int(s[Len(s)])

\* s[a:b] of Python (0-based, half-open, clipped to the string)
Slice(s, a, b) == SubSeq(s, a + 1, IF b > Len(s) THEN Len(s) ELSE b)

\* str.isdigit(): non-empty and every character a digit
isdigit(s) == Len(s) > 0 /\ \A i \in 1..Len(s) : IsDigitChar(s[i])

\* re.sub(r'[-\s]', '', value)
StripSeparators(s) == SelectSeq(s, LAMBDA c : c \notin {"-", " "})

\* re.sub(r'[^0-9]', '', value)
DigitsOnly(s) == SelectSeq(s, LAMBDA c : IsDigitChar(c))

\* Python's "needle in hay" for strings
IsSubstring(needle, hay) ==
    \E k \in 0..(Len(hay) - Len(needle)) :
        SubSeq(hay, k + 1, k + Len(needle)) = needle

(***************************************************************************)
(* BaseValidator: the shared nuisance-pattern filter                       *)
(***************************************************************************)
SEQUENTIAL_PATTERNS ==
    { Digs(<<0,1,2,3,4,5,6,7,8,9>>), Digs(<<1,2,3,4,5,6,7,8,9,0>>),
      Digs(<<1,2,3,4,5,6,7,8,9>>),   Digs(<<2,3,4,5,6,7,8,9,0>>),
      Digs(<<0,1,2,3,4,5,6,7,8>>),   Digs(<<9,8,7,6,5,4,3,2,1,0>>),
      Digs(<<9,8,7,6,5,4,3,2,1>>),   Digs(<<8,7,6,5,4,3,2,1,0>>),
      Digs(<<0,9,8,7,6,5,4,3,2>>) }

TEST_PATTERNS ==
    { Digs(<<1,2,3,1,2,3,1,2,3>>), Digs(<<1,1,1,2,2,2,3,3,3>>),
      Digs(<<3,3,3,2,2,2,1,1,1>>), Digs(<<1,1,2,2,3,3,4,4,5>>),
      Digs(<<9,9,8,8,7,7,6,6,5>>), Digs(<<1,2,3,3,2,1,1,2,3>>),
      Digs(<<1,1,1,0,0,0,1,1,1>>), Digs(<<0,0,0,1,1,1,0,0,0>>),
      Digs(<<1,0,1,0,1,0,1,0,1>>), Digs(<<1,2,1,2,1,2,1,2,1>>),
      Digs(<<1,2,3,4,1,2,3,4,1>>), Digs(<<5,6,7,8,5,6,7,8,5>>),
      Digs(<<1,2,3,1,2,3,1,2,3,1,2,3>>), Digs(<<4,5,6,4,5,6,4,5,6,4,5,6>>) }

RRN_TEST_PATTERNS ==
    { Digs(<<0,0,0,0,0,0,0,0,0,0,0,0,0>>), Digs(<<1,1,1,1,1,1,1,1,1,1,1,1,1>>),
      Digs(<<1,2,3,4,5,6,1,2,3,4,5,6,7>>), Digs(<<9,0,0,1,0,1,1,2,3,4,5,6,7>>),
      Digs(<<8,0,0,1,0,1,1,2,3,4,5,6,7>>), Digs(<<7,0,0,1,0,1,1,2,3,4,5,6,7>>) }

\* BaseValidator._is_sequential: every step +1 mod 10, or every step -1 mod 10
Base_is_sequential(digits) ==
    IF Len(digits) < 6 THEN FALSE
    ELSE \/ \A i \in 2..Len(digits) : int(digits[i]) = (int(digits[i-1]) + 1) % 10
         \/ \A i \in 2..Len(digits) : int(digits[i]) = (int(digits[i-1]) + 9) % 10

\* BaseValidator._is_two_digit_repeat: the first two digits repeated throughout
_is_two_digit_repeat(digits) ==
    IF Len(digits) < 6 THEN FALSE
    ELSE IF digits[1] = digits[2] THEN FALSE
    ELSE \A i \in 1..Len(digits) : digits[i] = digits[IF i % 2 = 1 THEN 1 ELSE 2]

\* CardValidator._is_sequential (overrides the base method): the digits are
\* 0123456789012345 or 0987654321098765 cut to their length
Card_is_sequential(digits) ==
    \/ \A i \in 1..Len(digits) : int(digits[i]) = (i - 1) % 10
    \/ \A i \in 1..Len(digits) : int(digits[i]) = (10 - ((i - 1) % 10)) % 10

\* self._is_sequential: the method of the validator class the call is made on
_is_sequential(self, digits) ==
    IF self = "CardValidator" THEN Card_is_sequential(digits)
    ELSE Base_is_sequential(digits)

\* BaseValidator.is_invalid_pattern
is_invalid_pattern(self, v) ==
    LET digits_only == DigitsOnly(v) IN
    IF Len(digits_only) = 0 THEN TRUE
    ELSE IF Len(digits_only) < 6 THEN FALSE
    ELSE IF Cardinality(Range(digits_only)) = 1 THEN TRUE
    ELSE IF \E seq \in SEQUENTIAL_PATTERNS :
                digits_only = seq \/ IsSubstring(digits_only, seq) THEN TRUE
    ELSE IF _is_sequential(self, digits_only) THEN TRUE
    ELSE IF digits_only \in TEST_PATTERNS THEN TRUE
    ELSE _is_two_digit_repeat(digits_only)

\* BaseValidator.is_test_rrn
is_test_rrn(v) ==
    LET normalized == DigitsOnly(v) IN
    \/ is_invalid_pattern("RRNValidator", normalized)
    \/ normalized \in RRN_TEST_PATTERNS
    \/ Len(normalized) >= 6 /\ Cardinality(Range(Slice(normalized, 0, 6))) = 1
    \/ Len(normalized) >= 13 /\ Cardinality(Range(Slice(normalized, 6, 13))) = 1
    \/ Len(normalized) >= 13 /\ Base_is_sequential(Slice(normalized, 6, 13))

(***************************************************************************)
(* RRNValidator (src/validators/rrn_validator.py)                          *)
(***************************************************************************)
RRN_CHECKSUM_WEIGHTS == <<2, 3, 4, 5, 6, 7, 8, 9, 2, 3, 4, 5>>

\* CHECKSUM_CUTOFF_DATE = date(2020, 10, 1), as <<year, month, day>>
CHECKSUM_CUTOFF_DATE == <<2020, 10, 1>>

\* datetime.date(y, m, d) raises ValueError unless the day exists
IsLeapYear(y) == (y % 4 = 0 /\ y % 100 # 0) \/ y % 400 = 0

DaysInMonth(y, m) ==
    IF m = 2 THEN (IF IsLeapYear(y) THEN 29 ELSE 28)
    ELSE IF m \in {4, 6, 9, 11} THEN 30 ELSE 31

DateExists(d) == d[2] \in 1..12 /\ d[3] >= 1 /\ d[3] <= DaysInMonth(d[1], d[2])

\* date.__lt__
DateBefore(a, b) ==
    \/ a[1] < b[1]
    \/ a[1] = b[1] /\ a[2] < b[2]
    \/ a[1] = b[1] /\ a[2] = b[2] /\ a[3] < b[3]

\* RRNValidator._is_valid_date: month 1..12, day within a fixed per-month cap
RRN_is_valid_date(digits) ==
    LET month == ToInt(Slice(digits, 2, 4))
        day   == ToInt(Slice(digits, 4, 6))
        max_days == <<31, 29, 31, 30, 31, 30, 31, 31, 30, 31, 30, 31>>
    IN  IF month < 1 \/ month > 12 THEN FALSE
        ELSE IF day < 1 \/ day > max_days[month] THEN FALSE
        ELSE TRUE

\* RRNValidator.validate
RRN_validate(v) ==
    LET digits == StripSeparators(v) IN
    IF Len(digits) # 13 THEN FALSE
    ELSE IF ~isdigit(digits) THEN FALSE
    ELSE IF ~RRN_is_valid_date(digits) THEN FALSE
    ELSE int(digits[7]) \in {1, 2, 3, 4}

\* get_birth_date with the century branch lost: every year read as 19yy
get_birth_date_1900(v) ==
    LET digits == StripSeparators(v) IN
    << ToInt(Slice(digits, 0, 2)) + 1900,
       ToInt(Slice(digits, 2, 4)),
       ToInt(Slice(digits, 4, 6)) >>

\* RRNValidator.get_birth_date: the <<year, month, day>> handed to date(...)
get_birth_date(v) ==
    LET digits == StripSeparators(v)
        yy     == ToInt(Slice(digits, 0, 2))
        gender == int(digits[7])
    IN  << IF gender \in {1, 2, 5, 6} THEN yy + 1900
           ELSE IF gender \in {3, 4, 7, 8} THEN yy + 2000
           ELSE yy + 1800,
           ToInt(Slice(digits, 2, 4)),
           ToInt(Slice(digits, 4, 6)) >>

\* RRNValidator.verify_checksum
RRN_verify_checksum(v) ==
    LET digits == StripSeparators(v)
        RECURSIVE total(_)
        total(i) == IF i = 0 THEN 0
                    ELSE total(i - 1) + int(digits[i]) * RRN_CHECKSUM_WEIGHTS[i]
    IN  IF Len(digits) # 13 \/ ~isdigit(digits) THEN FALSE
        ELSE (11 - (total(12) % 11)) % 10 = int(digits[13])

\* RRNValidator.is_checksum_applicable: False when date(...) raises
RRN_is_checksum_applicable(v) ==
    LET digits == StripSeparators(v) IN
    IF Len(digits) < 7 \/ ~isdigit(Slice(digits, 0, 7)) THEN FALSE
    ELSE IF ~DateExists(get_birth_date(v)) THEN FALSE
    ELSE DateBefore(get_birth_date(v), CHECKSUM_CUTOFF_DATE)

\* validate_full as the module docstring describes it: a failed checksum
\* downgrades to the suspect label instead of rejecting
RRN_validate_full_downgrade(v) ==
    IF is_test_rrn(v) THEN <<FALSE, "">>
    ELSE IF ~RRN_validate(v) THEN <<FALSE, "">>
    ELSE IF RRN_is_checksum_applicable(v) /\ RRN_verify_checksum(v)
         THEN <<TRUE, "RRN">>
         ELSE <<TRUE, "RRN(suspect)">>

\* RRNValidator.validate_full
RRN_validate_full(v) ==
    IF is_test_rrn(v) THEN <<FALSE, "">>
    ELSE IF ~RRN_validate(v) THEN <<FALSE, "">>
    ELSE IF RRN_is_checksum_applicable(v)
         THEN (IF RRN_verify_checksum(v) THEN <<TRUE, "RRN">> ELSE <<FALSE, "">>)
         ELSE <<TRUE, "RRN(suspect)">>

(***************************************************************************)
(* Inputs of the resident-number check: a six-digit date field, every      *)
(* seventh digit, a five-digit middle field, every check digit, written    *)
(* with or without the hyphen.                                             *)
(***************************************************************************)
RRNDateFields ==
    { <<9,0,0,1,0,1>>, <<8,5,0,5,1,5>>, <<0,0,0,2,2,9>>, <<0,1,0,2,2,9>>,
      <<2,0,0,9,3,0>>, <<2,0,1,0,0,1>>, <<2,0,1,0,1,5>>, <<2,3,0,1,0,1>>,
      <<1,1,1,1,1,1>>, <<9,0,1,3,0,1>>, <<9,9,0,2,3,0>>, <<1,2,3,4,5,6>>,
      <<2,1,0,2,2,9>> }

RRNMiddleFields ==
    { <<2,3,4,5,6>>, <<1,1,1,1,1>>, <<0,4,5,8,2>>, <<7,3,1,9,0>> }

RRNInputs ==
    { (IF hyphen THEN Digs(d) \o <<"-">> ELSE Digs(d)) \o Digs(<<g>> \o m \o <<c>>) :
        d \in RRNDateFields, g \in 0..9, m \in RRNMiddleFields, c \in 0..9,
        hyphen \in BOOLEAN }

InitRRN ==
    /\ value \in RRNInputs /\ result = NoResult /\ orig = NoResult
    /\ context = <<>> /\ subject_code = NoResult
    /\ ScannerIdle /\ DedupIdle /\ RiskIdle /\ MaskIdle /\ V2Idle /\ CodefIdle /\ UpmIdle /\ AnchorIdle /\ SplitIdle /\ CompIdle

RRNValidateFull ==
    /\ result = NoResult
    /\ result' = RRN_validate_full(value)
    /\ UNCHANGED <<value, orig, context, subject_code, scanVars, dedupVars, riskVars, maskVars, v2Vars, codefVars, upmVars, anchorVars, splitVars, compVars>>

NextRRN == RRNValidateFull

SpecRRN == InitRRN /\ [][NextRRN]_vars

(***************************************************************************)
(* Claims about the resident-number validator                              *)
(***************************************************************************)
\* the digits of the input as numbers
ValueDigits == [i \in 1..Len(DigitsOnly(value)) |-> int(DigitsOnly(value)[i])]

\* the birth date the claims speak of: century from the seventh digit
ClaimBirthDate ==
    LET ds == ValueDigits IN
    << (IF ds[7] \in {3, 4, 7, 8} THEN 2000 ELSE 1900) + 10 * ds[1] + ds[2],
       10 * ds[3] + ds[4], 10 * ds[5] + ds[6] >>

\* the check digit of the stated formula
ClaimCheckDigit ==
    LET ds == ValueDigits IN
    (11 - ((2*ds[1] + 3*ds[2] + 4*ds[3] + 5*ds[4] + 6*ds[5] + 7*ds[6] + 8*ds[7]
            + 9*ds[8] + 2*ds[9] + 3*ds[10] + 4*ds[11] + 5*ds[12]) % 11)) % 10

\* 13 digits, a real calendar date, seventh digit 1..4, born before 2020-10-01
C1_Premise ==
    /\ result # NoResult
    /\ Len(ValueDigits) = 13
    /\ ValueDigits[7] \in 1..4
    /\ DateExists(ClaimBirthDate)
    /\ DateBefore(ClaimBirthDate, <<2020, 10, 1>>)

C2_PostCutoffSuspect ==
    ( /\ result # NoResult
      /\ RRN_validate(value)
      /\ ~is_test_rrn(value)
      /\ ~DateBefore(ClaimBirthDate, <<2020, 10, 1>>) )
    => result = <<TRUE, "RRN(suspect)">>

C2_Witness ==
    /\ result = <<TRUE, "RRN(suspect)">>
    /\ DateExists(ClaimBirthDate)
    /\ ~DateBefore(ClaimBirthDate, <<2020, 10, 1>>)
    /\ ValueDigits[13] # ClaimCheckDigit

(***************************************************************************)
(* DriverLicenseValidator (src/validators/driver_license_validator.py)     *)
(***************************************************************************)
DL_VALID_REGION_CODES ==
    {11, 12, 13, 14, 15, 16, 17, 18, 19, 20, 21, 22, 23, 24, 25, 26, 28}

INVALID_SERIAL_PATTERNS ==
    { Digs(<<0,0,0,0,0,0>>), Digs(<<1,1,1,1,1,1>>), Digs(<<2,2,2,2,2,2>>),
      Digs(<<3,3,3,3,3,3>>), Digs(<<4,4,4,4,4,4>>), Digs(<<5,5,5,5,5,5>>),
      Digs(<<6,6,6,6,6,6>>), Digs(<<7,7,7,7,7,7>>), Digs(<<8,8,8,8,8,8>>),
      Digs(<<9,9,9,9,9,9>>), Digs(<<1,2,3,4,5,6>>), Digs(<<2,3,4,5,6,7>>),
      Digs(<<3,4,5,6,7,8>>), Digs(<<4,5,6,7,8,9>>), Digs(<<6,5,4,3,2,1>>),
      Digs(<<7,6,5,4,3,2>>), Digs(<<8,7,6,5,4,3>>), Digs(<<9,8,7,6,5,4>>),
      Digs(<<0,1,2,3,4,5>>), Digs(<<5,4,3,2,1,0>>) }

INVALID_FULL_PATTERNS ==
    { [i \in 1..12 |-> DigitChars[d + 1]] : d \in 0..9 } \cup
    { Digs(<<1,2,3,4,5,6,7,8,9,0,1,2>>), Digs(<<0,1,2,3,4,5,6,7,8,9,0,1>>),
      Digs(<<2,1,0,9,8,7,6,5,4,3,2,1>>), Digs(<<1,0,9,8,7,6,5,4,3,2,1,0>>) }

DL_CHECKSUM_WEIGHTS == <<2, 3, 4, 5, 6, 7, 8, 9, 2, 3>>

\* re.search(r'(\d)\1{n-1,}', s): some digit occurs n or more times in a row
HasDigitRun(s, n) ==
    \E k \in 1..(Len(s) - n + 1) :
        IsDigitChar(s[k]) /\ \A j \in k..(k + n - 1) : s[j] = s[k]

\* DriverLicenseInvalidFilter.check: TRUE when the number is a nuisance value
DriverLicenseInvalidFilter_check(license_number) ==
    LET cleaned == SelectSeq(license_number, LAMBDA c : c \notin {"-", " "})
        serial  == Slice(cleaned, 4, 10)
    IN  IF Len(license_number) = 0 THEN TRUE
        ELSE IF Len(cleaned) # 12 THEN TRUE
        ELSE IF ~isdigit(cleaned) THEN TRUE
        ELSE IF cleaned \in INVALID_FULL_PATTERNS THEN TRUE
        ELSE IF HasDigitRun(cleaned, 10) THEN TRUE
        ELSE IF serial \in INVALID_SERIAL_PATTERNS THEN TRUE
        ELSE HasDigitRun(serial, 5)

\* DriverLicenseValidator.validate
DL_validate(v) ==
    LET digits == StripSeparators(v) IN
    IF Len(digits) # 12 THEN FALSE
    ELSE IF ~isdigit(digits) THEN FALSE
    ELSE ToInt(Slice(digits, 0, 2)) \in DL_VALID_REGION_CODES

\* DriverLicenseValidator.verify_checksum
DL_verify_checksum(v) ==
    LET digits == StripSeparators(v)
        RECURSIVE total(_)
        total(i) == IF i = 0 THEN 0
                    ELSE total(i - 1) + int(digits[i]) * DL_CHECKSUM_WEIGHTS[i]
    IN  IF Len(digits) # 12 \/ ~isdigit(digits) THEN FALSE
        ELSE total(10) % 100 = ToInt(Slice(digits, 10, 12))

\* validate_full with the checksum made authoritative, as for resident numbers
DL_validate_full_reject(v) ==
    IF ~DL_validate(v) THEN <<FALSE, "">>
    ELSE IF DriverLicenseInvalidFilter_check(StripSeparators(v)) THEN <<FALSE, "">>
    ELSE IF DL_verify_checksum(v) THEN <<TRUE, "DL">>
    ELSE <<FALSE, "">>

\* DriverLicenseValidator.validate_full
DL_validate_full(v) ==
    IF ~DL_validate(v) THEN <<FALSE, "">>
    ELSE IF DriverLicenseInvalidFilter_check(StripSeparators(v)) THEN <<FALSE, "">>
    ELSE IF DL_verify_checksum(v) THEN <<TRUE, "DL">>
    ELSE <<TRUE, "DL(suspect)">>

(***************************************************************************)
(* Inputs of the driver-license check: region, year, serial and every      *)
(* two-digit check field, written plain or as RR-YY-SSSSSS-CC.             *)
(***************************************************************************)
DLRegionFields ==
    { <<r \div 10, r % 10>> : r \in DL_VALID_REGION_CODES \cup {10, 27, 99} }

DLYearFields == { <<2,3>>, <<1,1>>, <<3,4>> }

DLSerialFields ==
    { <<4,8,1,5,1,6>>, <<1,2,3,4,5,6>>, <<1,1,1,1,1,1>>, <<5,5,5,5,5,0>>,
      <<5,6,7,8,9,0>>, <<9,0,2,8,3,7>> }

DLInputs ==
    { IF hyphen
      THEN Digs(r) \o <<"-">> \o Digs(y) \o <<"-">> \o Digs(n) \o <<"-">>
           \o Digs(<<c1, c2>>)
      ELSE Digs(r \o y \o n \o <<c1, c2>>) :
        r \in DLRegionFields, y \in DLYearFields, n \in DLSerialFields,
        c1 \in 0..9, c2 \in 0..9, hyphen \in BOOLEAN }

InitDL ==
    /\ value \in DLInputs /\ result = NoResult /\ orig = NoResult
    /\ context = <<>> /\ subject_code = NoResult
    /\ ScannerIdle /\ DedupIdle /\ RiskIdle /\ MaskIdle /\ V2Idle /\ CodefIdle /\ UpmIdle /\ AnchorIdle /\ SplitIdle /\ CompIdle

DLValidateFull ==
    /\ result = NoResult
    /\ result' = DL_validate_full(value)
    /\ UNCHANGED <<value, orig, context, subject_code, scanVars, dedupVars, riskVars, maskVars, v2Vars, codefVars, upmVars, anchorVars, splitVars, compVars>>

NextDL == DLValidateFull

SpecDL == InitDL /\ [][NextDL]_vars

(***************************************************************************)
(* Claim about the driver-license validator                                *)
(***************************************************************************)
\* the check field of the stated formula: weighted sum of the first ten
\* digits, modulo 100
ClaimDLCheck ==
    LET ds == ValueDigits IN
    (2*ds[1] + 3*ds[2] + 4*ds[3] + 5*ds[4] + 6*ds[5] + 7*ds[6] + 8*ds[7]
     + 9*ds[8] + 2*ds[9] + 3*ds[10]) % 100

C3_Premise ==
    /\ result # NoResult
    /\ Len(ValueDigits) = 12
    /\ 10 * ValueDigits[1] + ValueDigits[2] \in (11..26) \cup {28}
    /\ ~DriverLicenseInvalidFilter_check(DigitsOnly(value))
    /\ 10 * ValueDigits[11] + ValueDigits[12] # ClaimDLCheck

\* C3: a 12-digit value with a valid region code that the nuisance filter
\* does not reject and whose check field is wrong is reported
\* (True, "DL(suspect)"), never (False, "")
C3_DLChecksumFailureIsSuspect ==
    C3_Premise => result = <<TRUE, "DL(suspect)">>

C3_Witness == C3_Premise /\ result = <<TRUE, "DL(suspect)">>

(***************************************************************************)
(* CardValidator.verify_luhn (src/validators/card_validator.py)            *)
(***************************************************************************)
\* the Luhn total over a digit string, i counted from the right end
LuhnTotal(digits) ==
    LET n == Len(digits)
        term(i) == LET d == int(digits[n - i]) IN
                   IF i % 2 = 1 THEN (IF 2 * d > 9 THEN 2 * d - 9 ELSE 2 * d)
                   ELSE d
        RECURSIVE total(_)
        total(k) == IF k = 0 THEN 0 ELSE total(k - 1) + term(k - 1)
    IN  total(n)

\* verify_luhn without the separator normalisation of its first line
verify_luhn_unnormalised(v) ==
    IF ~isdigit(v) THEN FALSE ELSE LuhnTotal(v) % 10 = 0

\* CardValidator.verify_luhn
verify_luhn(v) ==
    LET digits == StripSeparators(v) IN
    IF ~isdigit(digits) THEN FALSE ELSE LuhnTotal(digits) % 10 = 0

(***************************************************************************)
(* Inputs of the Luhn check: 15- and 16-digit numbers, into which          *)
(* separator characters are then inserted between digits.                  *)
(***************************************************************************)
CardNumbers ==
    { Digs(<<4,5,3,2,0,1,5,1,1,2,8,3,0,3,6,6>>),
      Digs(<<5,4,2,5,2,3,3,4,3,0,1,0,9,9,0,3>>),
      Digs(<<4,5,3,2,0,1,5,1,1,2,8,3,0,3,6,7>>),
      Digs(<<1,2,3,4,5,6,7,8,9,0,1,2,3,4,5,6>>),
      Digs(<<3,7,8,2,8,2,2,4,6,3,1,0,0,0,5>>),
      Digs(<<3,7,1,4,4,9,6,3,5,3,9,8,4,3,2>>) }

\* separator characters a writer may put between the digits
SeparatorChars == {"-", " ", ".", "/"}

\* how many separator characters are inserted at most
MaxSeparators == 2

InitCard ==
    /\ value \in CardNumbers /\ result = NoResult /\ orig = NoResult
    /\ context = <<>> /\ subject_code = NoResult
    /\ ScannerIdle /\ DedupIdle /\ RiskIdle /\ MaskIdle /\ V2Idle /\ CodefIdle /\ UpmIdle /\ AnchorIdle /\ SplitIdle /\ CompIdle

CardVerifyLuhn ==
    /\ result = NoResult
    /\ result' = <<verify_luhn(value)>>
    /\ UNCHANGED <<value, orig, context, subject_code, scanVars, dedupVars, riskVars, maskVars, v2Vars, codefVars, upmVars, anchorVars, splitVars, compVars>>

\* the caller writes the same number with one more separator between digits
CardInsertSeparator ==
    /\ result # NoResult
    /\ Len(value) - Len(DigitsOnly(value)) < MaxSeparators
    /\ \E k \in 1..(Len(value) - 1), c \in SeparatorChars :
          /\ IsDigitChar(value[k]) /\ IsDigitChar(value[k + 1])
          /\ value' = SubSeq(value, 1, k) \o <<c>> \o SubSeq(value, k + 1, Len(value))
    /\ orig' = IF orig = NoResult THEN result ELSE orig
    /\ result' = NoResult
    /\ UNCHANGED <<context, subject_code, scanVars, dedupVars, riskVars, maskVars, v2Vars, codefVars, upmVars, anchorVars, splitVars, compVars>>

NextCard == CardVerifyLuhn \/ CardInsertSeparator

SpecCard == InitCard /\ [][NextCard]_vars

(***************************************************************************)
(* Claim about the Luhn check                                              *)
(***************************************************************************)
\* C4 as stated: with any non-digit separators inserted between the digits of
\* a 15- or 16-digit number, verify_luhn answers as for the plain number
C4_AsStated ==
    (orig # NoResult /\ result # NoResult) => result = orig

\* C4 amended: with hyphens or whitespace inserted between the digits of a
\* 15- or 16-digit number, verify_luhn answers as for the plain number
C4_LuhnIgnoresHyphenAndSpace ==
    ( /\ orig # NoResult
      /\ result # NoResult
      /\ \A i \in 1..Len(value) : IsDigitChar(value[i]) \/ value[i] \in {"-", " "} )
    => result = orig

C4_Witness ==
    /\ orig = <<TRUE>>
    /\ result = <<TRUE>>
    /\ \E i, j \in 1..Len(value) : value[i] = "-" /\ value[j] = " "

(***************************************************************************)
(* AccountValidator: account numbers, judged with the text around them.    *)
(* A text is a sequence of characters; a Hangul syllable is one character, *)
(* written as its romanised jamo with x for the silent initial, so that a  *)
(* Latin letter and a syllable never coincide.  Banks are named            *)
(*   KDB, IBK, KB, KEBHana, Shinhan, Woori, SC, Citi, Daegu, BNKBusan, NH, *)
(*   LocalNH, Suhyup, MG, KakaoBank, KBank, TossBank                       *)
(* for the Korean names of the source, and the labels and confidences are  *)
(* "ACCOUNT", "ACCOUNT(suspect)", "high", "medium", "low".                 *)
(***************************************************************************)
\* AccountInvalidFilter.INVALID_PATTERNS
ACCOUNT_INVALID_PATTERNS ==
    {
      Digs(<<0,0,0,0,0,0,0,0,0,0>>), Digs(<<0,1,2,3,4,5,6,7,8,9>>),
      Digs(<<0,9,8,7,6,5,4,3,2,1>>), Digs(<<1,1,1,1,1,1,1,1,1,1>>),
      Digs(<<1,2,3,4,5,6,7,8,9,0>>), Digs(<<2,2,2,2,2,2,2,2,2,2>>),
      Digs(<<3,3,3,3,3,3,3,3,3,3>>), Digs(<<4,4,4,4,4,4,4,4,4,4>>),
      Digs(<<5,5,5,5,5,5,5,5,5,5>>), Digs(<<6,6,6,6,6,6,6,6,6,6>>),
      Digs(<<7,7,7,7,7,7,7,7,7,7>>), Digs(<<8,8,8,8,8,8,8,8,8,8>>),
      Digs(<<9,8,7,6,5,4,3,2,1,0>>), Digs(<<9,9,9,9,9,9,9,9,9,9>>),
      Digs(<<0,0,0,0,0,0,0,0,0,0,0>>), Digs(<<0,1,2,3,4,5,6,7,8,9,0>>),
      Digs(<<1,0,9,8,7,6,5,4,3,2,1>>), Digs(<<1,1,1,1,1,1,1,1,1,1,1>>),
      Digs(<<1,2,3,4,5,6,7,8,9,0,1>>), Digs(<<2,2,2,2,2,2,2,2,2,2,2>>),
      Digs(<<3,3,3,3,3,3,3,3,3,3,3>>), Digs(<<4,4,4,4,4,4,4,4,4,4,4>>),
      Digs(<<5,5,5,5,5,5,5,5,5,5,5>>), Digs(<<6,6,6,6,6,6,6,6,6,6,6>>),
      Digs(<<7,7,7,7,7,7,7,7,7,7,7>>), Digs(<<8,8,8,8,8,8,8,8,8,8,8>>),
      Digs(<<9,8,7,6,5,4,3,2,1,0,9>>), Digs(<<9,9,9,9,9,9,9,9,9,9,9>>),
      Digs(<<0,0,0,0,0,0,0,0,0,0,0,0>>), Digs(<<0,1,2,3,4,5,6,7,8,9,0,1>>),
      Digs(<<1,1,1,1,1,1,1,1,1,1,1,1>>), Digs(<<1,2,3,4,5,6,7,8,9,0,1,2>>),
      Digs(<<2,2,2,2,2,2,2,2,2,2,2,2>>), Digs(<<3,3,3,3,3,3,3,3,3,3,3,3>>),
      Digs(<<4,4,4,4,4,4,4,4,4,4,4,4>>), Digs(<<5,5,5,5,5,5,5,5,5,5,5,5>>),
      Digs(<<6,6,6,6,6,6,6,6,6,6,6,6>>), Digs(<<7,7,7,7,7,7,7,7,7,7,7,7>>),
      Digs(<<8,8,8,8,8,8,8,8,8,8,8,8>>), Digs(<<9,9,9,9,9,9,9,9,9,9,9,9>>),
      Digs(<<0,0,0,0,0,0,0,0,0,0,0,0,0>>), Digs(<<1,1,1,1,1,1,1,1,1,1,1,1,1>>),
      Digs(<<2,2,2,2,2,2,2,2,2,2,2,2,2>>), Digs(<<3,3,3,3,3,3,3,3,3,3,3,3,3>>),
      Digs(<<4,4,4,4,4,4,4,4,4,4,4,4,4>>), Digs(<<5,5,5,5,5,5,5,5,5,5,5,5,5>>),
      Digs(<<6,6,6,6,6,6,6,6,6,6,6,6,6>>), Digs(<<7,7,7,7,7,7,7,7,7,7,7,7,7>>),
      Digs(<<8,8,8,8,8,8,8,8,8,8,8,8,8>>), Digs(<<9,9,9,9,9,9,9,9,9,9,9,9,9>>),
      Digs(<<0,0,0,0,0,0,0,0,0,0,0,0,0,0>>), Digs(<<1,1,1,1,1,1,1,1,1,1,1,1,1,1>>),
      Digs(<<2,2,2,2,2,2,2,2,2,2,2,2,2,2>>), Digs(<<3,3,3,3,3,3,3,3,3,3,3,3,3,3>>),
      Digs(<<4,4,4,4,4,4,4,4,4,4,4,4,4,4>>), Digs(<<5,5,5,5,5,5,5,5,5,5,5,5,5,5>>),
      Digs(<<6,6,6,6,6,6,6,6,6,6,6,6,6,6>>), Digs(<<7,7,7,7,7,7,7,7,7,7,7,7,7,7>>),
      Digs(<<8,8,8,8,8,8,8,8,8,8,8,8,8,8>>), Digs(<<9,9,9,9,9,9,9,9,9,9,9,9,9,9>>) }

\* AccountInvalidFilter.check: TRUE when the number is a nuisance value
AccountInvalidFilter_check(account_number) ==
    LET digits_only == DigitsOnly(account_number)
        n == Len(digits_only)
        d(i) == int(digits_only[i])
        \* _has_sequential_pattern(digits, 8): eight digits in a row, each
        \* one more (or each one less) than the one before, modulo 10
        sequential ==
            \E k \in 1..(n - 7) :
                \/ \A i \in (k + 1)..(k + 7) : d(i) = (d(i - 1) + 1) % 10
                \/ \A i \in (k + 1)..(k + 7) : d(i) = (d(i - 1) + 9) % 10
        \* _has_two_digit_repeat(digits, 8)
        two_digit_repeat ==
            /\ n >= 8
            /\ digits_only[1] # digits_only[2]
            /\ \A i \in 1..n : digits_only[i] = digits_only[IF i % 2 = 1 THEN 1 ELSE 2]
    IN  IF Len(account_number) = 0 THEN TRUE
        ELSE IF n < 10 \/ n > 16 THEN TRUE
        ELSE IF digits_only \in ACCOUNT_INVALID_PATTERNS THEN TRUE
        ELSE IF Cardinality(Range(digits_only)) = 1 THEN TRUE
        ELSE IF HasDigitRun(digits_only, 8) THEN TRUE
        ELSE IF sequential THEN TRUE
        ELSE two_digit_repeat

\* SubjectCodeExtractor.EXTRACTION_RULES: per bank, <<length, start, width>>
EXTRACTION_RULES ==
    "KDB"       :> { <<11, 3, 2>>, <<14, 0, 3>> } @@
    "IBK"       :> { <<12, 3, 2>>, <<14, 9, 2>> } @@
    "KB"        :> { <<12, 3, 2>>, <<14, 4, 2>> } @@
    "KEBHana"   :> { <<11, 3, 2>>, <<12, 0, 3>>, <<14, 12, 2>> } @@
    "Suhyup"    :> { <<11, 3, 2>>, <<12, 0, 3>> } @@
    "NH"        :> { <<11, 3, 2>>, <<12, 4, 2>>, <<13, 0, 3>> } @@
    "LocalNH"   :> { <<13, 0, 3>>, <<14, 6, 2>> } @@
    "Woori"     :> { <<11, 3, 2>>, <<12, 3, 2>>, <<13, 1, 3>>, <<14, 9, 2>> } @@
    "SC"        :> { <<11, 3, 2>>, <<14, 3, 2>> } @@
    "Shinhan"   :> { <<11, 3, 2>>, <<12, 0, 3>>, <<14, 0, 3>> } @@
    "Citi"      :> { <<11, 3, 2>>, <<14, 8, 2>> } @@
    "Daegu"     :> { <<11, 3, 2>>, <<12, 0, 3>> } @@
    "MG"        :> { <<13, 1, 3>>, <<14, 4, 3>> } @@
    "KBank"     :> { <<12, 0, 3>> } @@
    "KakaoBank" :> { <<13, 1, 3>> } @@
    "TossBank"  :> { <<12, 0, 3>> }

\* SubjectCodeExtractor.extract; <<>> stands for None
SubjectCodeExtractor_extract(account_number, bank_name) ==
    IF bank_name \notin DOMAIN EXTRACTION_RULES THEN <<>>
    ELSE LET digits == StripSeparators(account_number)
             rules  == {r \in EXTRACTION_RULES[bank_name] : r[1] = Len(digits)}
         IN  IF rules = {} THEN <<>>
             ELSE LET r == CHOOSE r \in rules : TRUE
                  IN  IF r[2] + r[3] > Len(digits) THEN <<>>
                      ELSE Slice(digits, r[2], r[2] + r[3])

\* validators/bank_formats.py, BANK_ACCOUNT_FORMATS: the registry of the
\* banks' lengths and code tables.  The entries are those the specification
\* and the tests name: KakaoBank (13 digits; 333 deposit, 388 time deposit,
\* 777 virtual), TossBank (12 digits; 100, 106, 190), KBank (12 digits; 100).
\* A code table is a set of <<account type, codes>>; a code is <<"code", c>>
\* or <<"range", first, last>> for "first~last"
BANK_ACCOUNT_FORMATS ==
    "KakaoBank" :> [ lengths |-> {13},
                     virtual_codes |-> { <<"code", Digs(<<7,7,7>>)>> },
                     subject_codes |->
                         { <<"deposit", { <<"code", Digs(<<3,3,3>>)>> }>>,
                           <<"time_deposit", { <<"code", Digs(<<3,8,8>>)>> }>> } ] @@
    "TossBank"  :> [ lengths |-> {12},
                     virtual_codes |-> {},
                     subject_codes |->
                         { <<"deposit", { <<"code", Digs(<<1,0,0>>)>>,
                                          <<"code", Digs(<<1,0,6>>)>> }>>,
                           <<"toss_money", { <<"code", Digs(<<1,9,0>>)>> }>> } ] @@
    "KBank"     :> [ lengths |-> {12},
                     virtual_codes |-> {},
                     subject_codes |->
                         { <<"deposit", { <<"code", Digs(<<1,0,0>>)>> }>> } ]

\* validators/bank_formats.py, get_valid_lengths_by_bank: the lengths of the
\* bank's entry, none for a bank without entry
get_valid_lengths_by_bank(bank_name) ==
    IF bank_name \in DOMAIN BANK_ACCOUNT_FORMATS
    THEN BANK_ACCOUNT_FORMATS[bank_name].lengths ELSE {}

\* SubjectCodeValidator._match_code
_match_code(code, valid_codes) ==
    \E vc \in valid_codes :
        IF vc[1] = "range"
        THEN isdigit(code) /\ ToInt(vc[2]) <= ToInt(code) /\ ToInt(code) <= ToInt(vc[3])
        ELSE code = vc[2]

\* SubjectCodeValidator.validate that gives a code outside the tables the
\* benefit of the doubt
SubjectCodeValidator_validate_lenient(code, bank_name) ==
    IF code = <<>> \/ bank_name \notin DOMAIN BANK_ACCOUNT_FORMATS
    THEN <<TRUE, FALSE>>
    ELSE LET bank_data == BANK_ACCOUNT_FORMATS[bank_name]
         IN  IF _match_code(code, bank_data.virtual_codes) THEN <<TRUE, TRUE>>
             ELSE IF \E t \in bank_data.subject_codes : _match_code(code, t[2])
             THEN <<TRUE, TRUE>>
             ELSE <<TRUE, FALSE>>

\* SubjectCodeValidator.validate: <<is_valid, an account type was found>>
SubjectCodeValidator_validate(code, bank_name) ==
    IF code = <<>> \/ bank_name \notin DOMAIN BANK_ACCOUNT_FORMATS
    THEN <<TRUE, FALSE>>
    ELSE LET bank_data == BANK_ACCOUNT_FORMATS[bank_name]
         IN  IF _match_code(code, bank_data.virtual_codes) THEN <<TRUE, TRUE>>
             ELSE IF \E t \in bank_data.subject_codes : _match_code(code, t[2])
             THEN <<TRUE, TRUE>>
             ELSE <<FALSE, FALSE>>

\* AccountValidator.BANK_KEYWORDS, in the order of the dict: <<keyword, bank>>
BANK_KEYWORDS ==
    << <<<<"san", "xeob", "xeun", "haeng">>, "KDB">>,
       <<<<"san", "xeun">>, "KDB">>,
       <<<<"K", "D", "B">>, "KDB">>,
       <<<<"gi", "xeob", "xeun", "haeng">>, "IBK">>,
       <<<<"I", "B", "K">>, "IBK">>,
       <<<<"jung", "so", "gi", "xeob", "xeun", "haeng">>, "IBK">>,
       <<<<"gug", "min", "xeun", "haeng">>, "KB">>,
       <<<<"K", "B">>, "KB">>,
       <<<<"ju", "taeg", "xeun", "haeng">>, "KB">>,
       <<<<"ha", "na", "xeun", "haeng">>, "KEBHana">>,
       <<<<"K", "E", "B">>, "KEBHana">>,
       <<<<"xoe", "hwan", "xeun", "haeng">>, "KEBHana">>,
       <<<<"sin", "han", "xeun", "haeng">>, "Shinhan">>,
       <<<<"sin", "han">>, "Shinhan">>,
       <<<<"jo", "heung", "xeun", "haeng">>, "Shinhan">>,
       <<<<"xu", "ri", "xeun", "haeng">>, "Woori">>,
       <<<<"xu", "ri">>, "Woori">>,
       <<<<"sang", "xeob", "xeun", "haeng">>, "Woori">>,
       <<<<"han", "xil", "xeun", "haeng">>, "Woori">>,
       <<<<"pyeong", "hwa", "xeun", "haeng">>, "Woori">>,
       <<<<"S", "C", "je", "xil">>, "SC">>,
       <<<<"je", "xil", "xeun", "haeng">>, "SC">>,
       <<<<"ssi", "ti", "xeun", "haeng">>, "Citi">>,
       <<<<"ssi", "ti">>, "Citi">>,
       <<<<"han", "mi", "xeun", "haeng">>, "Citi">>,
       <<<<"dae", "gu", "xeun", "haeng">>, "Daegu">>,
       <<<<"D", "G", "B">>, "Daegu">>,
       <<<<"bu", "san", "xeun", "haeng">>, "BNKBusan">>,
       <<<<"B", "N", "K">>, "BNKBusan">>,
       <<<<"nong", "hyeob">>, "NH">>,
       <<<<"N", "H">>, "NH">>,
       <<<<"dan", "xwi", "nong", "hyeob">>, "LocalNH">>,
       <<<<"ji", "xyeog", "nong", "hyeob">>, "LocalNH">>,
       <<<<"su", "hyeob">>, "Suhyup">>,
       <<<<"sae", "ma", "xeul", "geum", "go">>, "MG">>,
       <<<<"sae", "ma", "xeul">>, "MG">>,
       <<<<"ka", "ka", "xo", "baeng", "keu">>, "KakaoBank">>,
       <<<<"ka", "ka", "xo">>, "KakaoBank">>,
       <<<<"ke", "xi", "baeng", "keu">>, "KBank">>,
       <<<<"to", "seu", "baeng", "keu">>, "TossBank">>,
       <<<<"to", "seu">>, "TossBank">> >>

\* AccountValidator.ACCOUNT_CONTEXT_KEYWORDS
ACCOUNT_CONTEXT_KEYWORDS ==
    { <<"gye", "jwa">>,
      <<"gye", "jwa", "beon", "ho">>,
      <<"a", "c", "c", "o", "u", "n", "t">>,
      <<"xib", "geum">>,
      <<"song", "geum">>,
      <<"xi", "che">>,
      <<"chul", "geum">>,
      <<"xeun", "haeng">>,
      <<"b", "a", "n", "k">>,
      <<"xye", "geum">>,
      <<"jeog", "geum">>,
      <<"geub", "xyeo">>,
      <<"xwol", "geub">>,
      <<"jeong", "san">>,
      <<"xib", "geum", "gye", "jwa">>,
      <<"chul", "geum", "gye", "jwa">>,
      <<"hwan", "bul", "gye", "jwa">>,
      <<"geub", "xyeo", "gye", "jwa">>,
      <<"gyeol", "je", "gye", "jwa">>,
      <<"bo", "tong", "xye", "geum">>,
      <<"jeo", "chug", "xye", "geum">>,
      <<"ja", "xyu", "jeo", "chug">>,
      <<"jeong", "gi", "xye", "geum">>,
      <<"jeong", "gi", "jeog", "geum">> }

\* str.lower()
lower(s) ==
    LET upper == <<"A","B","C","D","E","F","G","H","I","J","K","L","M",
                   "N","O","P","Q","R","S","T","U","V","W","X","Y","Z">>
        small == <<"a","b","c","d","e","f","g","h","i","j","k","l","m",
                   "n","o","p","q","r","s","t","u","v","w","x","y","z">>
    IN  [i \in 1..Len(s) |->
            IF s[i] \in Range(upper)
            THEN small[CHOOSE k \in 1..26 : upper[k] = s[i]] ELSE s[i]]

\* keyword.lower() in context_lower or keyword in context
keyword_in(keyword, ctx) ==
    IsSubstring(lower(keyword), lower(ctx)) \/ IsSubstring(keyword, ctx)

\* AccountValidator.validate
Account_validate(v) ==
    LET digits == StripSeparators(v)
    IN  Len(digits) >= 10 /\ Len(digits) <= 16 /\ isdigit(digits)

\* AccountValidator.detect_bank_from_context: the bank of the first keyword
\* of BANK_KEYWORDS found in the text, "" when there is none
detect_bank_from_context(ctx) ==
    LET hits == {k \in 1..Len(BANK_KEYWORDS) : keyword_in(BANK_KEYWORDS[k][1], ctx)}
    IN  IF hits = {} THEN ""
        ELSE BANK_KEYWORDS[CHOOSE k \in hits : \A j \in hits : k <= j][2]

\* has_account_context without its loop over ACCOUNT_CONTEXT_KEYWORDS
has_account_context_banks_only(ctx) ==
    \E k \in 1..Len(BANK_KEYWORDS) : keyword_in(BANK_KEYWORDS[k][1], ctx)

\* AccountValidator.has_account_context
has_account_context(ctx) ==
    \/ \E keyword \in ACCOUNT_CONTEXT_KEYWORDS : keyword_in(keyword, ctx)
    \/ \E k \in 1..Len(BANK_KEYWORDS) : keyword_in(BANK_KEYWORDS[k][1], ctx)

\* AccountValidator.validate_full: <<is_valid, info_type, confidence>>
Account_validate_full(v, ctx) ==
    IF ~Account_validate(v) THEN <<FALSE, "", "">>
    ELSE LET digits        == StripSeparators(v)
             detected_bank == detect_bank_from_context(ctx)
             has_context   == has_account_context(ctx)
             valid_lengths == get_valid_lengths_by_bank(detected_bank)
             length_match  == IF valid_lengths # {}
                              THEN Len(digits) \in valid_lengths ELSE TRUE
             code          == SubjectCodeExtractor_extract(digits, detected_bank)
             code_valid    == SubjectCodeValidator_validate(code, detected_bank)
         IN  IF AccountInvalidFilter_check(digits) THEN <<FALSE, "", "">>
             ELSE IF detected_bank # ""
             THEN IF ~length_match THEN <<TRUE, "ACCOUNT", "medium">>
                  ELSE IF code # <<>>
                  THEN IF code_valid[1] /\ code_valid[2]
                       THEN <<TRUE, "ACCOUNT", "high">>
                       ELSE IF code_valid[1] THEN <<TRUE, "ACCOUNT", "high">>
                       ELSE <<TRUE, "ACCOUNT", "medium">>
                  ELSE <<TRUE, "ACCOUNT", "high">>
             ELSE IF has_context THEN <<TRUE, "ACCOUNT", "medium">>
             ELSE <<TRUE, "ACCOUNT(suspect)", "low">>

\* account numbers: those of test_account_validator.py, others of every
\* length from 9 to 17 digits, and two written with separators or a letter
AccountValues ==
    { Digs(<<3,3,3,0,1,0,0,1,2,3,4,5,6>>),
      Digs(<<3,8,8,0,1,0,0,1,2,3,4,5,6>>),
      Digs(<<7,7,7,0,1,0,0,1,2,3,4,5,6>>),
      Digs(<<9,9,9,0,1,0,0,1,2,3,4,5,6>>),
      Digs(<<3,3,3,3,0,1,0,0,1,2,3,4,5>>),
      Digs(<<3,3,8,8,0,1,0,0,1,2,3,4,5>>),
      Digs(<<3,3,3,0,1,0,0,1,2,3,4,5>>),
      Digs(<<1,0,0,0,1,2,3,4,5,6,7,8>>),
      Digs(<<1,9,0,0,1,2,3,4,5,6,7,8>>),
      Digs(<<1,0,0,1,2,3,4,5,6,7,8,9>>),
      Digs(<<1,2,3,4,5,6,7,8,9,0,1,2,3,4>>),
      Digs(<<9,8,7,6,5,4,3,2,1,0,1,2,3,4>>),
      Digs(<<1,1,1,1,1,1,1,1,1,1,1,1,1,1>>),
      Digs(<<0,1,0,1,2,3,4,5,6,7,8,9,0,1>>),
      Digs(<<1,0,0,0,4,7,3,8,2,9,1,5>>),
      Digs(<<1,0,6,0,4,7,3,8,2,9,1,5>>),
      Digs(<<5,5,5,0,4,7,3,8,2,9,1,5>>),
      Digs(<<4,7,3,8,2,9,1,5,6,0,4,7,3,8>>),
      Digs(<<4,7,3,8,2,9,1,5,6,0,4>>),
      Digs(<<4,7,3,8,2,9,1,5,6,0>>),
      Digs(<<4,7,3,8,2,9,1,5,6,0,4,7,3,8,2,9>>),
      Digs(<<4,7,3,8,2,9,1,5,6>>),
      Digs(<<4,7,3,8,2,9,1,5,6,0,4,7,3,8,2,9,1>>),
      Digs(<<4,7,3,8,2,9,1,5,6,0,4,7,3>>),
      Digs(<<3,3,3,0>>) \o <<"-">> \o Digs(<<0,1>>) \o <<"-">> \o Digs(<<0,0,1,2,3,4,5>>),
      Digs(<<4,7,3,8,2>>) \o <<"A">> \o Digs(<<9,1,5,6,0,4>>) }

\* texts around the number: those of test_account_validator.py, one in
\* lower-case Latin letters, one naming a bank by a keyword that contains
\* another, one naming a bank that has no extraction rule, and two without
\* any keyword
AccountContexts ==
    { <<"ka", "ka", "xo", "baeng", "keu", " ", "gye", "jwa", "xib", "ni", "da">>,
      <<"ka", "ka", "xo", "baeng", "keu", "ro", " ", "bo", "nae", "ju", "se", "xyo">>,
      <<"geub", "xyeo", " ", "xib", "geum", " ", "gye", "jwa", "xib", "ni", "da">>,
      <<>>,
      <<"gug", "min", "xeun", "haeng", " ", "gye", "jwa">>,
      <<"A", "B", "C", "xeun", "haeng", " ", "gye", "jwa", "xib", "ni", "da">>,
      <<"to", "seu", "baeng", "keu", "ro", " ", "xib", "geum">>,
      <<"ke", "xi", "baeng", "keu", " ", "gye", "jwa">>,
      <<"k", "b", " ", "b", "a", "n", "k">>,
      <<"dan", "xwi", "nong", "hyeob", " ", "tong", "jang">>,
      <<"xyeon", "rag", "cheo", "xib", "ni", "da">>,
      <<"bu", "san", "xeun", "haeng", " ", "song", "geum">> }

InitAccount ==
    /\ value \in AccountValues /\ context \in AccountContexts
    /\ result = NoResult /\ orig = NoResult /\ subject_code = NoResult
    /\ ScannerIdle /\ DedupIdle /\ RiskIdle /\ MaskIdle /\ V2Idle /\ CodefIdle /\ UpmIdle /\ AnchorIdle /\ SplitIdle /\ CompIdle

\* is_valid, info_type, conf = validator.validate_full(value, context)
AccountValidateFull ==
    /\ result = NoResult
    /\ result' = Account_validate_full(value, context)
    /\ UNCHANGED <<value, orig, context, subject_code, scanVars, dedupVars, riskVars, maskVars, v2Vars, codefVars, upmVars, anchorVars, splitVars, compVars>>

\* code = SubjectCodeExtractor.extract(value, bank)
AccountExtractSubjectCode ==
    /\ subject_code = NoResult
    /\ \E bank \in DOMAIN EXTRACTION_RULES \cup {"BNKBusan"} :
          subject_code' = <<bank, SubjectCodeExtractor_extract(value, bank)>>
    /\ UNCHANGED <<value, orig, context, result, scanVars, dedupVars, riskVars, maskVars, v2Vars, codefVars, upmVars, anchorVars, splitVars, compVars>>

NextAccount == AccountValidateFull \/ AccountExtractSubjectCode

SpecAccount == InitAccount /\ [][NextAccount]_vars

(***************************************************************************)
(* Claims about the account validator                                      *)
(***************************************************************************)
AccountDigits == StripSeparators(value)

KakaoContext ==
    <<"ka", "ka", "xo", "baeng", "keu", " ", "gye", "jwa", "xib", "ni", "da">>

\* C11: for a 13-digit KakaoBank number the subject code is its leading three
\* digits, and 3330100123456 in a text that names KakaoBank as an account is
\* validated with confidence high
C11_AsStated ==
    /\ ( /\ subject_code # NoResult
         /\ subject_code[1] = "KakaoBank"
         /\ Len(value) = 13 /\ isdigit(value) )
          => subject_code[2] = SubSeq(value, 1, 3)
    /\ ( /\ result # NoResult
         /\ value = Digs(<<3,3,3,0,1,0,0,1,2,3,4,5,6>>)
         /\ context = KakaoContext )
          => result[3] = "high"

\* the account passed the format check and the nuisance filter, and the text
\* names a bank
BankRecognized ==
    /\ result # NoResult /\ result[1]
    /\ detect_bank_from_context(context) # ""

RecognizedBank == detect_bank_from_context(context)

\* the code sits in a table of the bank's registry entry
CodeListed(code, bank) ==
    /\ bank \in DOMAIN BANK_ACCOUNT_FORMATS
    /\ LET listed(codes) ==
               \E vc \in codes :
                   \/ vc[1] = "code" /\ vc[2] = code
                   \/ /\ vc[1] = "range" /\ isdigit(code)
                      /\ ToInt(vc[2]) <= ToInt(code) /\ ToInt(code) <= ToInt(vc[3])
       IN  \/ listed(BANK_ACCOUNT_FORMATS[bank].virtual_codes)
           \/ \E t \in BANK_ACCOUNT_FORMATS[bank].subject_codes : listed(t[2])

\* the extraction rule of the bank for the length of the number, if any
RuleFor(bank) ==
    IF bank \in DOMAIN EXTRACTION_RULES
    THEN {r \in EXTRACTION_RULES[bank] : r[1] = Len(AccountDigits)}
    ELSE {}

CodeAt(r) == SubSeq(AccountDigits, r[2] + 1, r[2] + r[3])

C13_AccountConfidenceLadder ==
    ( /\ result # NoResult
      /\ isdigit(AccountDigits)
      /\ Len(AccountDigits) >= 10 /\ Len(AccountDigits) <= 16
      /\ ~AccountInvalidFilter_check(AccountDigits) )
    => LET has_bank == \E k \in 1..Len(BANK_KEYWORDS) :
                           keyword_in(BANK_KEYWORDS[k][1], context)
           has_transaction == \E keyword \in ACCOUNT_CONTEXT_KEYWORDS :
                                  keyword_in(keyword, context)
           lengths == get_valid_lengths_by_bank(RecognizedBank)
       IN  /\ (has_bank /\ lengths # {} /\ Len(AccountDigits) \notin lengths)
                 => result = <<TRUE, "ACCOUNT", "medium">>
           /\ (~has_bank /\ has_transaction)
                 => result = <<TRUE, "ACCOUNT", "medium">>
           /\ (~has_bank /\ ~has_transaction)
                 => result = <<TRUE, "ACCOUNT(suspect)", "low">>

\* a number was validated in a text that has a transaction keyword and names
\* no bank
C13_Witness ==
    /\ result = <<TRUE, "ACCOUNT", "medium">>
    /\ detect_bank_from_context(context) = ""
    /\ \E keyword \in ACCOUNT_CONTEXT_KEYWORDS : keyword_in(keyword, context)

(***************************************************************************)
(* LocalLLMAnalyzer.detect_sensitive_info_regex (src/core/analyzer.py)     *)
(*                                                                         *)
(* The text is known by its length and by what re.finditer yields on it:   *)
(* for each type, matches from left to right that do not overlap one       *)
(* another.  Each match comes with the answer its validator gives on the   *)
(* matched value and its context window.                                   *)
(***************************************************************************)
PRIORITY_ORDER ==
    << "RRN", "FRN", "PASSPORT", "DL",
       "CARD", "MOBILE", "PHONE", "EMAIL",
       "ACCOUNT", "ADDRESS", "IP" >>

\* len(text) of the scanned text
TextLen == 2

\* _is_overlapping with the ends compared strictly: touching spans collide
_is_overlapping_touching(start1, end1, start2, end2) ==
    ~(end1 < start2 \/ end2 < start1)

\* _is_overlapping
_is_overlapping(start1, end1, start2, end2) ==
    ~(end1 <= start2 \/ end2 <= start1)

\* "(uisim)" in detected_type
HasSuspectMarker(label) ==
    label \in { "RRN(suspect)", "FRN(suspect)", "PASSPORT(suspect)",
                "DL(suspect)", "CARD(suspect)", "ACCOUNT(suspect)" }

\* account-number matches of the scan, <<value, context window>>: a number
\* beside a bank that has an extraction rule, beside a bank that has none,
\* beside an account keyword only, beside no keyword at all, and a run of
\* one digit beside a bank
AccountMatches ==
    { <<Digs(<<3,3,3,0,1,0,0,1,2,3,4,5,6>>),
        <<"ka", "ka", "xo", "baeng", "keu", " ", "gye", "jwa", "xib", "ni", "da">> >>,
      <<Digs(<<3,3,3,0,1,0,0,1,2,3,4,5,6>>),
        <<"bu", "san", "xeun", "haeng", " ", "song", "geum">> >>,
      <<Digs(<<3,3,3,0,1,0,0,1,2,3,4,5,6>>),
        <<"geub", "xyeo", " ", "xib", "geum", " ", "gye", "jwa", "xib", "ni", "da">> >>,
      <<Digs(<<3,3,3,0,1,0,0,1,2,3,4,5,6>>),
        <<"xyeon", "rag", "cheo", "xib", "ni", "da">> >>,
      <<Digs(<<1,1,1,1,1,1,1,1,1,1,1,1,1,1>>),
        <<"ka", "ka", "xo", "baeng", "keu", " ", "gye", "jwa", "xib", "ni", "da">> >> }

\* is_valid, detected_type, conf = account_validator.validate_full(value,
\* context) on each of the matches, followed by the context
AccountAnswers ==
    { Account_validate_full(m[1], m[2]) \o <<m[2]>> : m \in AccountMatches }

\* what the validator of a type can answer on a matched value: the return
\* values of its validate_full (for ACCOUNT, followed by the context window
\* the answer was computed on); for ADDRESS, whether a context keyword is
\* in the window; nothing for the types that have no validator
ValidateFullRange(info_type) ==
    CASE info_type = "RRN" ->
           { RRN_validate_full(Digs(v)) :
               v \in { <<0,0,0,2,2,9,3,1,1,1,1,1,1>>, <<0,0,0,2,2,9,3,1,1,1,1,1,2>>,
                       <<2,0,1,0,1,5,3,1,1,1,1,1,1>> } }
      [] info_type = "FRN" ->
           { <<TRUE, "FRN">>, <<TRUE, "FRN(suspect)">>, <<FALSE, "">> }
      [] info_type = "PASSPORT" ->
           { <<TRUE, "PASSPORT">>, <<TRUE, "PASSPORT(suspect)">>, <<FALSE, "">> }
      [] info_type = "DL" ->
           { DL_validate_full(Digs(v)) :
               v \in { <<1,1,1,1,4,8,1,5,1,6,1,1>>, <<1,1,1,1,4,8,1,5,1,6,4,6>>,
                       <<1,1,1,1,1,2,3,4,5,6,1,1>> } }
      [] info_type = "CARD" ->
           { <<TRUE, "CARD">>, <<FALSE, "">> }
      [] info_type = "ACCOUNT" -> AccountAnswers
      [] info_type = "ADDRESS" -> { <<TRUE>>, <<FALSE>> }
      [] OTHER -> { <<>> }

\* _validate_with_context: <<has_context, confidence>>, from the answer of
\* the type's validator
_validate_with_context(info_type, answer) ==
    IF info_type \in {"RRN", "FRN", "PASSPORT", "DL", "CARD"}
    THEN IF answer[1]
         THEN (IF HasSuspectMarker(answer[2]) THEN <<TRUE, "medium">>
               ELSE <<TRUE, "high">>)
         ELSE <<FALSE, "low">>
    ELSE IF info_type = "EMAIL" THEN <<TRUE, "high">>
    ELSE IF info_type = "ACCOUNT"
    THEN (IF answer[1] THEN <<TRUE, answer[3]>> ELSE <<FALSE, "low">>)
    ELSE IF info_type = "ADDRESS"
    THEN (IF answer[1] THEN <<TRUE, "high">> ELSE <<FALSE, "medium">>)
    ELSE IF info_type \in {"PHONE", "MOBILE"} THEN <<FALSE, "high">>
    ELSE IF info_type = "IP" THEN <<TRUE, "medium">>
    ELSE <<FALSE, "medium">>

\* the type label written into the record (analyzer.py:159-163)
display_type(info_type, confidence) ==
    IF confidence = "medium" /\ info_type \in {"RRN", "FRN", "CARD", "ACCOUNT"}
    THEN info_type \o "(suspect)"
    ELSE IF confidence = "low" /\ info_type = "ACCOUNT" THEN "ACCOUNT(suspect)"
    ELSE info_type

\* list.sort(key=lambda x: x['start']): stable insertion by start offset
RECURSIVE SortByStart(_)
SortByStart(items) ==
    IF Len(items) <= 1 THEN items
    ELSE LET rest == SortByStart(Tail(items))
             x    == Head(items)
             k    == Cardinality({i \in 1..Len(rest) : rest[i].start < x.start})
         IN  SubSeq(rest, 1, k) \o <<x>> \o SubSeq(rest, k + 1, Len(rest))

InitScan ==
    /\ scan_type = 1 /\ scan_pos = 0
    /\ detected = <<>> /\ detected_ranges = <<>> /\ scan_event = <<>>
    /\ ValidatorsIdle /\ DedupIdle /\ RiskIdle /\ MaskIdle /\ V2Idle /\ CodefIdle /\ UpmIdle /\ AnchorIdle /\ SplitIdle /\ CompIdle

\* one pass of the inner loop: finditer yields the next match of the current
\* type, at [start, end), and the loop body handles it
ScanMatch ==
    /\ scan_type \in 1..Len(PRIORITY_ORDER)
    /\ \E start \in scan_pos..(TextLen - 1), end \in 1..TextLen,
          answer \in ValidateFullRange(PRIORITY_ORDER[scan_type]) :
        LET info_type    == PRIORITY_ORDER[scan_type]
            is_duplicate == \E r \in Range(detected_ranges) :
                                _is_overlapping(start, end, r[1], r[2])
            vc           == _validate_with_context(info_type, answer)
            rejected     == /\ info_type \in {"RRN", "FRN", "PASSPORT", "DL",
                                              "CARD", "ACCOUNT"}
                            /\ ~answer[1]
        IN  /\ start < end
            /\ scan_pos' = end
            /\ IF is_duplicate
               THEN /\ scan_event' = <<"overlap", info_type, start, end, rejected>>
                    /\ UNCHANGED <<detected, detected_ranges>>
               ELSE IF info_type = "ACCOUNT" /\ ~vc[1]
               THEN /\ scan_event' = <<"no_context", info_type, start, end, rejected>>
                    /\ UNCHANGED <<detected, detected_ranges>>
               ELSE /\ detected' = Append(detected,
                          [ type |-> display_type(info_type, vc[2]),
                            start |-> start, end |-> end, method |-> "regex",
                            confidence |-> vc[2], has_context |-> vc[1],
                            context |-> IF info_type = "ACCOUNT" THEN answer[4]
                                        ELSE <<>> ])
                    /\ detected_ranges' =
                          Append(detected_ranges, <<start, end, info_type>>)
                    /\ scan_event' = <<"accepted", info_type, start, end, rejected>>
    /\ UNCHANGED <<scan_type, validatorVars, dedupVars, riskVars, maskVars, v2Vars, codefVars, upmVars, anchorVars, splitVars, compVars>>

\* finditer is exhausted (or the type has no pattern): on to the next type
ScanNextType ==
    /\ scan_type \in 1..Len(PRIORITY_ORDER)
    /\ scan_type' = scan_type + 1
    /\ scan_pos' = 0
    /\ UNCHANGED <<detected, detected_ranges, scan_event, validatorVars, dedupVars, riskVars, maskVars, v2Vars, codefVars, upmVars, anchorVars, splitVars, compVars>>

\* detected.sort(key=start); return detected
ScanReturn ==
    /\ scan_type = Len(PRIORITY_ORDER) + 1
    /\ scan_type' = 0
    /\ detected' = SortByStart(detected)
    /\ scan_event' = <<"returned">>
    /\ UNCHANGED <<scan_pos, detected_ranges, validatorVars, dedupVars, riskVars, maskVars, v2Vars, codefVars, upmVars, anchorVars, splitVars, compVars>>

NextScan == ScanMatch \/ ScanNextType \/ ScanReturn

SpecScan == InitScan /\ [][NextScan]_vars

(***************************************************************************)
(* Claim about the scanner's overlap handling                              *)
(***************************************************************************)
\* two half-open spans share at least one character of the text
SharesCharacter(s1, e1, s2, e2) ==
    \E p \in 0..(TextLen - 1) : s1 <= p /\ p < e1 /\ s2 <= p /\ p < e2

PriorityIndex(info_type) ==
    CHOOSE i \in 1..Len(PRIORITY_ORDER) : PRIORITY_ORDER[i] = info_type

\* the ranges accepted before the match of scan_event was handled
RangesBeforeEvent ==
    IF scan_event # <<>> /\ scan_event[1] = "accepted"
    THEN SubSeq(detected_ranges, 1, Len(detected_ranges) - 1)
    ELSE detected_ranges

\* the match of scan_event meets a span accepted for an earlier type
EventMeetsEarlierType ==
    \E r \in Range(RangesBeforeEvent) :
        /\ PriorityIndex(r[3]) < PriorityIndex(scan_event[2])
        /\ SharesCharacter(scan_event[3], scan_event[4], r[1], r[2])

\* C5: no two recorded spans intersect; a match is dropped for overlap exactly
\* when it meets a span already accepted for an earlier type of
\* PRIORITY_ORDER, whichever of the two starts first; an RRN match is always
\* recorded, so of an RRN match and an ACCOUNT match that intersect only the
\* RRN span is in the output
C5_PriorityExclusion ==
    /\ \A i, j \in 1..Len(detected) :
          i # j => ~SharesCharacter(detected[i].start, detected[i].end,
                                    detected[j].start, detected[j].end)
    /\ (scan_event # <<>> /\ scan_event[1] \in {"overlap", "accepted", "no_context"})
          => ((scan_event[1] = "overlap") <=> EventMeetsEarlierType)
    /\ (scan_event # <<>> /\ scan_event[1] # "returned" /\ scan_event[2] = "RRN")
          => scan_event[1] = "accepted"

\* an ACCOUNT match that starts before an accepted RRN span and runs into it
\* has just been dropped
C5_Witness ==
    /\ scan_event # <<>>
    /\ scan_event[1] = "overlap"
    /\ scan_event[2] = "ACCOUNT"
    /\ \E r \in Range(detected_ranges) :
          /\ r[3] = "RRN"
          /\ scan_event[3] < r[1]
          /\ SharesCharacter(scan_event[3], scan_event[4], r[1], r[2])

(***************************************************************************)
(* Claims about what the scanner records                                   *)
(***************************************************************************)
\* C16: no account-number candidate is recorded whose context window holds
\* neither a bank name nor an account keyword, under either account label
C16_AsStated ==
    \A i \in 1..Len(detected) :
        detected[i].type \in {"ACCOUNT", "ACCOUNT(suspect)"}
            => has_account_context(detected[i].context)

\* C17: a match whose validate_full answered is_valid = False is not recorded
C17_AsStated ==
    ~(/\ scan_event # <<>>
      /\ scan_event[1] = "accepted"
      /\ scan_event[5])

\* C18: a recorded span of a type that has a validator whose label carries no
\* suspect marker has confidence high
C18_AsStated ==
    \A i \in 1..Len(detected) :
        detected[i].type \in {"RRN", "FRN", "PASSPORT", "DL", "CARD", "ACCOUNT"}
            => detected[i].confidence = "high"

(***************************************************************************)
(* AIAnalyzer._deduplicate_sensitive_results: the merge of the spans of    *)
(* all chunks.  A span is a record [start, end, value]; the other fields   *)
(* of the dict take no part in the merge.                                  *)
(***************************************************************************)
\* the 50 of value[:50]
VALUE_KEY_LEN == 50

\* item.get('value', '')[:50]
value_key(item) == Slice(item.value, 0, VALUE_KEY_LEN)

\* max(0, min(item.end, existing.end) - max(item.start, existing.start))
overlap_len(item, existing) ==
    LET overlap_start == IF item.start >= existing.start
                         THEN item.start ELSE existing.start
        overlap_end   == IF item.end <= existing.end
                         THEN item.end ELSE existing.end
    IN  IF overlap_end - overlap_start > 0
        THEN overlap_end - overlap_start ELSE 0

\* item_len > 0 and overlap_len / item_len > 0.5, with at-least in place of
\* more-than
exceeds_half_inclusive(item, existing) ==
    LET item_len == item.end - item.start
    IN  item_len > 0 /\ 2 * overlap_len(item, existing) >= item_len

\* item_len > 0 and overlap_len / item_len > 0.5; the quotient of two
\* integers exceeds one half exactly when twice the dividend exceeds the
\* divisor
exceeds_half(item, existing) ==
    LET item_len == item.end - item.start
    IN  item_len > 0 /\ 2 * overlap_len(item, existing) > item_len

\* the inner loop over `deduplicated`
is_overlapping(item, accepted) ==
    \E k \in 1..Len(accepted) : exceeds_half(item, accepted[k])

\* spans of a short text, half-open
DedupSpans ==
    { <<0, 4>>, <<0, 2>>, <<1, 3>>, <<2, 5>>, <<3, 3>> }

Fill(c, n) == [i \in 1..n |-> c]

\* span texts: two short ones, and two that differ only after their 50th
\* character
DedupValues ==
    { <<"a">>, <<"b">>, Fill("c", VALUE_KEY_LEN) \o <<"x">>,
      Fill("c", VALUE_KEY_LEN) \o <<"y">> }

DedupItems ==
    { [start |-> sp[1], end |-> sp[2], value |-> v] :
          sp \in DedupSpans, v \in DedupValues }

\* the longest list of spans handed to the merge
MaxSpans == 3

InitDedup ==
    /\ \E n \in 0..MaxSpans : results \in [1..n -> DedupItems]
    /\ sorted_results = <<>> /\ item_idx = 0
    /\ deduplicated = <<>> /\ seen_values = {} /\ dedup_event = <<>>
    /\ ValidatorsIdle /\ ScannerIdle /\ RiskIdle /\ MaskIdle /\ V2Idle /\ CodefIdle /\ UpmIdle /\ AnchorIdle /\ SplitIdle /\ CompIdle

\* if not results: return []
DedupEmpty ==
    /\ item_idx = 0 /\ dedup_event = <<>>
    /\ results = <<>>
    /\ item_idx' = -1
    /\ dedup_event' = <<"returned">>
    /\ UNCHANGED <<results, sorted_results, deduplicated, seen_values>>
    /\ UNCHANGED <<validatorVars, scanVars, riskVars, maskVars, v2Vars, codefVars, upmVars, anchorVars, splitVars, compVars>>

\* sorted_results = sorted(results, key=start)
DedupSort ==
    /\ item_idx = 0 /\ dedup_event = <<>>
    /\ results # <<>>
    /\ sorted_results' = SortByStart(results)
    /\ dedup_event' = <<"sorted">>
    /\ UNCHANGED <<results, item_idx, deduplicated, seen_values>>
    /\ UNCHANGED <<validatorVars, scanVars, riskVars, maskVars, v2Vars, codefVars, upmVars, anchorVars, splitVars, compVars>>

\* one pass of `for item in sorted_results`
DedupItem ==
    /\ dedup_event # <<>> /\ dedup_event[1] # "returned"
    /\ item_idx < Len(sorted_results)
    /\ item_idx' = item_idx + 1
    /\ LET item == sorted_results[item_idx + 1]
       IN  IF value_key(item) \in seen_values
           THEN /\ dedup_event' = <<"seen", item_idx + 1>>
                /\ UNCHANGED <<deduplicated, seen_values>>
           ELSE IF is_overlapping(item, deduplicated)
           THEN /\ dedup_event' = <<"overlap", item_idx + 1>>
                /\ UNCHANGED <<deduplicated, seen_values>>
           ELSE /\ seen_values' = seen_values \cup {value_key(item)}
                /\ deduplicated' = Append(deduplicated, item)
                /\ dedup_event' = <<"kept", item_idx + 1>>
    /\ UNCHANGED <<results, sorted_results>>
    /\ UNCHANGED <<validatorVars, scanVars, riskVars, maskVars, v2Vars, codefVars, upmVars, anchorVars, splitVars, compVars>>

\* return deduplicated
DedupReturn ==
    /\ dedup_event # <<>> /\ dedup_event[1] # "returned"
    /\ item_idx = Len(sorted_results)
    /\ item_idx' = -1
    /\ dedup_event' = <<"returned">>
    /\ UNCHANGED <<results, sorted_results, deduplicated, seen_values>>
    /\ UNCHANGED <<validatorVars, scanVars, riskVars, maskVars, v2Vars, codefVars, upmVars, anchorVars, splitVars, compVars>>

NextDedup == DedupEmpty \/ DedupSort \/ DedupItem \/ DedupReturn

SpecDedup == InitDedup /\ [][NextDedup]_vars

(***************************************************************************)
(* Claims about the merge                                                  *)
(***************************************************************************)
SpanLen(sp) == sp.end - sp.start

ShorterLen(a, b) == IF SpanLen(a) <= SpanLen(b) THEN SpanLen(a) ELSE SpanLen(b)

\* C6: in the list the merge returns, no two spans overlap by more than 50%
\* of the length of the shorter of the two
C6_AsStated ==
    (dedup_event = <<"returned">>)
        => \A i, j \in 1..Len(deduplicated) :
              i # j => 2 * overlap_len(deduplicated[i], deduplicated[j])
                           <= ShorterLen(deduplicated[i], deduplicated[j])

\* the spans accepted before the item of dedup_event was walked
AcceptedBeforeEvent ==
    IF dedup_event[1] = "kept"
    THEN SubSeq(deduplicated, 1, Len(deduplicated) - 1)
    ELSE deduplicated

EventItem == sorted_results[dedup_event[2]]

EventWalked == dedup_event # <<>> /\ dedup_event[1] \in {"seen", "overlap", "kept"}

\* C7: the merge walks the candidates in ascending start order (ties in the
\* order of the input); a candidate is discarded exactly when its first 50
\* characters equal those of an accepted span or its overlap with an accepted
\* span is more than half its own length; so of two spans with different
\* texts both survive when the later one is overlapped by at most half its
\* length, and only the earlier one survives when by more
C7_DedupRule ==
    /\ (dedup_event # <<>> /\ dedup_event[1] # "returned") =>
          /\ Len(sorted_results) = Len(results)
          /\ \E perm \in [1..Len(results) -> 1..Len(results)] :
                /\ \A i, j \in 1..Len(results) : i # j => perm[i] # perm[j]
                /\ \A i \in 1..Len(results) : sorted_results[i] = results[perm[i]]
                /\ \A i, j \in 1..Len(results) :
                      i < j => \/ sorted_results[i].start < sorted_results[j].start
                               \/ /\ sorted_results[i].start = sorted_results[j].start
                                  /\ perm[i] < perm[j]
    /\ EventWalked =>
          /\ dedup_event[2] = item_idx
          /\ (dedup_event[1] # "kept") <=>
                \E k \in 1..Len(AcceptedBeforeEvent) :
                    \/ Slice(AcceptedBeforeEvent[k].value, 0, 50)
                           = Slice(EventItem.value, 0, 50)
                    \/ /\ SpanLen(EventItem) > 0
                       /\ 2 * overlap_len(EventItem, AcceptedBeforeEvent[k])
                              > SpanLen(EventItem)
          /\ dedup_event[1] = "kept" => deduplicated[Len(deduplicated)] = EventItem
    /\ (dedup_event = <<"returned">> /\ Len(results) = 2
          /\ Slice(sorted_results[1].value, 0, 50)
                 # Slice(sorted_results[2].value, 0, 50)) =>
          IF 2 * overlap_len(sorted_results[2], sorted_results[1])
                 <= SpanLen(sorted_results[2])
          THEN deduplicated = sorted_results
          ELSE deduplicated = <<sorted_results[1]>>

\* a span overlapped by exactly half its length was kept, and the next one,
\* overlapped by more than half by an accepted span, has just been discarded
C7_Witness ==
    /\ dedup_event # <<>> /\ dedup_event[1] = "overlap"
    /\ Len(deduplicated) = 2
    /\ 2 * overlap_len(deduplicated[2], deduplicated[1]) = SpanLen(deduplicated[2])
    /\ SpanLen(deduplicated[2]) > 0

(***************************************************************************)
(* AIAnalyzer._create_analysis_from_detected and the merge of the LLM's    *)
(* assessment in comprehensive_analysis.  A detected item is a record with *)
(* a legal_category and, for a user pattern, a score.  The categories and  *)
(* levels are Korean words in the source:                                  *)
(*   unique_identifier, sensitive, financial, trade_secret, custom,        *)
(*   general; and critical, high, moderate, low.                           *)
(* Of the analysis dict the model keeps risk_score and risk_level.         *)
(***************************************************************************)
\* the keys of category_counts, in the order of the dict literal
LEGAL_CATEGORIES ==
    <<"unique_identifier", "sensitive", "financial", "trade_secret",
      "custom", "general">>

\* item.get('legal_category', general)
item_category(item) ==
    IF "legal_category" \in DOMAIN item THEN item.legal_category ELSE "general"

\* item.get('score', 10)
item_score(item) == IF "score" \in DOMAIN item THEN item.score ELSE 10

\* category_counts after the loop over detected_items: every key of the dict
\* literal, and every other category of an item as a new key, with the number
\* of items the loop counted under it
category_counts(items) ==
    LET keys == Range(LEGAL_CATEGORIES)
                   \cup {item_category(items[i]) : i \in 1..Len(items)}
    IN  [c \in keys |->
            Cardinality({i \in 1..Len(items) : item_category(items[i]) = c})]

\* user_pattern_score_total after the loop over detected_items; the sum of
\* the loop is taken over the two halves of the list
RECURSIVE user_pattern_score_total(_)
user_pattern_score_total(items) ==
    IF items = <<>> THEN 0
    ELSE IF Len(items) = 1
    THEN (IF item_category(items[1]) = "custom" THEN item_score(items[1]) ELSE 0)
    ELSE LET half == Len(items) \div 2
         IN  user_pattern_score_total(SubSeq(items, 1, half))
             + user_pattern_score_total(SubSeq(items, half + 1, Len(items)))

\* the bonus for the number of categories present
breadth_bonus(active_categories) ==
    IF active_categories >= 3 THEN 20
    ELSE IF active_categories >= 2 THEN 10
    ELSE 0

\* the bonus for the number of items, with the thresholds in reverse order
volume_bonus_reversed(total_count) ==
    IF total_count >= 50 THEN 5
    ELSE IF total_count >= 20 THEN 10
    ELSE IF total_count >= 10 THEN 15
    ELSE 0

\* the bonus for the number of items
volume_bonus(total_count) ==
    IF total_count >= 50 THEN 15
    ELSE IF total_count >= 20 THEN 10
    ELSE IF total_count >= 10 THEN 5
    ELSE 0

\* the level of a score, with more-than in place of at-least
risk_level_for_exclusive(risk_score) ==
    IF risk_score > 75 THEN "critical"
    ELSE IF risk_score > 50 THEN "high"
    ELSE IF risk_score > 25 THEN "moderate"
    ELSE "low"

\* the level of a score
risk_level_for(risk_score) ==
    IF risk_score >= 75 THEN "critical"
    ELSE IF risk_score >= 50 THEN "high"
    ELSE IF risk_score >= 25 THEN "moderate"
    ELSE "low"

_create_analysis_from_detected(items) ==
    LET counts == category_counts(items)
        weighted ==
            counts["unique_identifier"] * 20 + counts["financial"] * 15
            + counts["sensitive"] * 12 + counts["trade_secret"] * 12
            + user_pattern_score_total(items) + counts["general"] * 5
        active_categories == Cardinality({c \in DOMAIN counts : counts[c] > 0})
        uncapped == weighted + breadth_bonus(active_categories)
                    + volume_bonus(Len(items))
        risk_score == IF uncapped <= 100 THEN uncapped ELSE 100
    IN  [risk_score |-> risk_score, risk_level |-> risk_level_for(risk_score)]

\* the lines of comprehensive_analysis that merge llm_analysis into
\* analysis_result.  A risk_score is [num |-> n] for a number and
\* [str |-> s] for a string; comparing a string with the local score raises,
\* and the handler of the exception leaves analysis_result as it is
merge_llm_analysis(local, llm) ==
    IF "risk_level" \notin DOMAIN llm THEN local
    ELSE LET llm_score == IF "risk_score" \in DOMAIN llm
                          THEN llm.risk_score ELSE [num |-> 0]
         IN  IF "num" \notin DOMAIN llm_score THEN local
             ELSE IF llm_score.num > local.risk_score
             THEN [risk_score |-> llm_score.num, risk_level |-> llm.risk_level]
             ELSE local

\* the spans a detection can add: one of each category, a user pattern with
\* each score its manager allows (1..15)
RiskItems ==
    { [legal_category |-> c] : c \in Range(LEGAL_CATEGORIES) \ {"custom"} }
    \cup { [legal_category |-> "custom", score |-> k] : k \in 1..15 }

\* the spans the analysed list ends in
VariedItems ==
    { it \in RiskItems : it.legal_category = "custom" => it.score \in {1, 9, 10, 15} }

\* the span the analysed list begins with, any number of times: a user
\* pattern of the lowest score
FillerItem == [legal_category |-> "custom", score |-> 1]

\* the most copies of FillerItem, and the most spans after them
MaxFiller == 50
MaxVaried == 1

\* what analyze_with_llm can return: the parsed JSON of the model's answer
\* (any dict with a 'recommendations' key) or the local fallback analysis
LLMLevels == {"critical", "high", "moderate", "low", "unknown"}

LLMScores(local_score) ==
    {0, 30, 60, 90, 100, 120} \cup {local_score - 1, local_score, local_score + 1}

LLMResponses(local_score) ==
    LET scores == { [num |-> n] : n \in LLMScores(local_score) }
                  \cup { [str |-> "high"] }
    IN  { [recommendations |-> <<>>] }
        \cup { [recommendations |-> <<>>, risk_score |-> sc] : sc \in scores }
        \cup { [recommendations |-> <<>>, risk_level |-> lv] : lv \in LLMLevels }
        \cup { [recommendations |-> <<>>, risk_level |-> lv, risk_score |-> sc] :
                  lv \in LLMLevels, sc \in scores }

InitRisk ==
    /\ \E n \in 0..MaxFiller, m \in 0..MaxVaried :
          \E tail \in [1..m -> VariedItems] :
              detected_items = Fill(FillerItem, n) \o tail
    /\ analysis_result = NoResult /\ prev_result = NoResult
    /\ llm_analysis = NoResult
    /\ ValidatorsIdle /\ ScannerIdle /\ DedupIdle /\ MaskIdle /\ V2Idle /\ CodefIdle /\ UpmIdle /\ AnchorIdle /\ SplitIdle /\ CompIdle

\* analysis_result = self._create_analysis_from_detected(all_detected, text)
CreateAnalysis ==
    /\ analysis_result = NoResult
    /\ analysis_result' = _create_analysis_from_detected(detected_items)
    /\ UNCHANGED <<detected_items, prev_result, llm_analysis>>
    /\ UNCHANGED <<validatorVars, scanVars, dedupVars, maskVars, v2Vars, codefVars, upmVars, anchorVars, splitVars, compVars>>

\* the same analysis for the list with one more span
CreateAnalysisWithSpan ==
    /\ analysis_result # NoResult /\ prev_result = NoResult
    /\ llm_analysis = NoResult
    /\ \E s \in RiskItems :
          /\ detected_items' = Append(detected_items, s)
          /\ analysis_result' = _create_analysis_from_detected(detected_items')
    /\ prev_result' = analysis_result
    /\ UNCHANGED llm_analysis
    /\ UNCHANGED <<validatorVars, scanVars, dedupVars, maskVars, v2Vars, codefVars, upmVars, anchorVars, splitVars, compVars>>

\* llm_analysis = self.analyze_with_llm(text), and the merge that follows
MergeLLMAnalysis ==
    /\ analysis_result # NoResult /\ prev_result = NoResult
    /\ llm_analysis = NoResult
    /\ \E llm \in LLMResponses(analysis_result.risk_score) :
          /\ llm_analysis' = llm
          /\ analysis_result' = merge_llm_analysis(analysis_result, llm)
    /\ UNCHANGED <<detected_items, prev_result>>
    /\ UNCHANGED <<validatorVars, scanVars, dedupVars, maskVars, v2Vars, codefVars, upmVars, anchorVars, splitVars, compVars>>

NextRisk == CreateAnalysis \/ CreateAnalysisWithSpan \/ MergeLLMAnalysis

SpecRisk == InitRisk /\ [][NextRisk]_vars

(***************************************************************************)
(* Claims about the risk score                                             *)
(***************************************************************************)
\* C8: the score computed for a list with one more valid span is at least
\* the score computed for the list without it
C8_ScoreMonotone ==
    prev_result # NoResult
        => analysis_result.risk_score >= prev_result.risk_score

\* the fiftieth span has been added: the volume bonus went from 10 to 15 and
\* the score went up
C8_Witness ==
    /\ prev_result # NoResult
    /\ Len(detected_items) = 50
    /\ analysis_result.risk_score > prev_result.risk_score
    /\ analysis_result.risk_score < 100

CountOf(c) ==
    Cardinality({i \in 1..Len(detected_items) : detected_items[i].legal_category = c})

RECURSIVE SumOfScores(_)
SumOfScores(idx) ==
    IF idx = {} THEN 0
    ELSE LET i == CHOOSE i \in idx : TRUE
         IN  detected_items[i].score + SumOfScores(idx \ {i})

StatedScore ==
    LET custom == {i \in 1..Len(detected_items) :
                      detected_items[i].legal_category = "custom"}
        populated == Cardinality({c \in Range(LEGAL_CATEGORIES) : CountOf(c) > 0})
        breadth == IF populated >= 3 THEN 20 ELSE IF populated >= 2 THEN 10 ELSE 0
        total == Len(detected_items)
        volume == IF total >= 50 THEN 15 ELSE IF total >= 20 THEN 10
                  ELSE IF total >= 10 THEN 5 ELSE 0
        sum == 20 * CountOf("unique_identifier") + 15 * CountOf("financial")
               + 12 * CountOf("sensitive") + 12 * CountOf("trade_secret")
               + 5 * CountOf("general") + SumOfScores(custom) + breadth + volume
    IN  IF sum < 100 THEN sum ELSE 100

\* C9: the score is the weighted count of the spans plus the breadth and the
\* volume bonus, capped at 100, and the level is critical from 75, high from
\* 50, moderate from 25 and low below
C9_ScoreFormula ==
    (analysis_result # NoResult /\ llm_analysis = NoResult) =>
        /\ analysis_result.risk_score = StatedScore
        /\ analysis_result.risk_level =
              (IF StatedScore >= 75 THEN "critical"
               ELSE IF StatedScore >= 50 THEN "high"
               ELSE IF StatedScore >= 25 THEN "moderate"
               ELSE "low")

\* a list of two categories and at least twenty spans, so with both bonuses,
\* that scores exactly 50, the lowest score of the level high
C9_Witness ==
    /\ analysis_result # NoResult /\ llm_analysis = NoResult
    /\ Len(detected_items) >= 20
    /\ Cardinality({c \in Range(LEGAL_CATEGORIES) : CountOf(c) > 0}) >= 2
    /\ analysis_result.risk_score = 50
    /\ analysis_result.risk_level = "high"

LevelRank(level) ==
    CASE level = "low" -> 1 [] level = "moderate" -> 2
      [] level = "high" -> 3 [] level = "critical" -> 4

\* C10: the LLM's assessment replaces the local one only when its score is
\* strictly higher, and the final score and level are never lower than the
\* local score and level
C10_AsStated ==
    llm_analysis # NoResult =>
        LET local == _create_analysis_from_detected(detected_items)
        IN  /\ analysis_result # local =>
                  /\ "risk_score" \in DOMAIN llm_analysis
                  /\ "num" \in DOMAIN llm_analysis.risk_score
                  /\ llm_analysis.risk_score.num > local.risk_score
            /\ analysis_result.risk_score >= local.risk_score
            /\ analysis_result.risk_level \in {"low", "moderate", "high", "critical"}
                  => LevelRank(analysis_result.risk_level)
                         >= LevelRank(local.risk_level)

(***************************************************************************)
(* AIAnalyzer.mask_sensitive_info.  An item is a record [type, start, end, *)
(* value], produced by the regex scanner or by the LLM's chunk detection.  *)
(* Types are written "RRN", "FRN", "PASSPORT", "DL", "CARD", "ACCOUNT",    *)
(* "PHONE", "MOBILE", "EMAIL", and "HEALTH" for a sensitive-information    *)
(* type of the LLM; "RRN(suspect)" is the label with the suspect suffix.   *)
(***************************************************************************)
\* the 100 of value[:100] in _detect_sensitive_in_chunk_direct
LLM_VALUE_MAX == 100

\* str.strip()
strip(s) ==
    LET kept == {i \in 1..Len(s) : s[i] # " "}
    IN  IF kept = {} THEN <<>>
        ELSE SubSeq(s, CHOOSE i \in kept : \A j \in kept : i <= j,
                       CHOOSE i \in kept : \A j \in kept : j <= i)

\* the item detect_sensitive_info_regex records for a match at [start, end)
regex_item(txt, info_type, start, end) ==
    [type |-> info_type, start |-> start, end |-> end,
     value |-> strip(Slice(txt, start, end))]

\* the item _detect_sensitive_in_chunk_direct records for a value of the
\* LLM's answer found in the text at start
llm_item(txt, info_type, start, length) ==
    [type |-> info_type, start |-> start, end |-> start + length,
     value |-> Slice(Slice(txt, start, start + length), 0, LLM_VALUE_MAX)]

\* the replacement with as many '*' as the value has characters after the
\* four kept
mask_value_overlong(info_type, v) ==
    IF info_type \in {"RRN", "PASSPORT", "DL", "FRN", "CARD", "ACCOUNT"}
    THEN Slice(v, 0, 4) \o Fill("*", Len(v))
    ELSE Fill("*", Len(v))

\* the replacement `masked` of a value, by type
mask_value(info_type, v) ==
    LET stars(n) == Fill("*", IF n > 0 THEN n ELSE 0)
        hyphens  == {i \in 1..Len(v) : v[i] = "-"}
        ats      == {i \in 1..Len(v) : v[i] = "@"}
    IN  IF info_type \in {"RRN", "PASSPORT", "DL", "FRN"}
        THEN Slice(v, 0, 4) \o stars(Len(v) - 4)
        ELSE IF info_type \in {"CARD", "ACCOUNT"}
        THEN Slice(v, 0, 4) \o stars(Len(v) - 4)
        ELSE IF info_type \in {"PHONE", "MOBILE"}
        THEN IF Cardinality(hyphens) = 2
             THEN LET h1 == CHOOSE i \in hyphens : \A j \in hyphens : i <= j
                      h2 == CHOOSE i \in hyphens : \A j \in hyphens : j <= i
                  IN  SubSeq(v, 1, h1) \o stars(h2 - h1 - 1) \o SubSeq(v, h2, Len(v))
             ELSE stars(Len(v))
        ELSE IF info_type = "EMAIL"
        THEN IF ats # {} /\ (CHOOSE i \in ats : \A j \in ats : i <= j) > 1
             THEN LET at_pos == (CHOOSE i \in ats : \A j \in ats : i <= j) - 1
                  IN  <<v[1]>> \o stars(at_pos - 1) \o SubSeq(v, at_pos + 1, Len(v))
             ELSE stars(Len(v))
        ELSE stars(Len(v))

\* a text: a statement of more than LLM_VALUE_MAX letters, a resident
\* registration number, a mobile number and an e-mail address
MaskText ==
    LET letters == <<"a","b","c","d","e","f","g","h","i","j","k","l","m",
                     "n","o","p","q","r","s","t","u","v","w","x","y","z">>
    IN  [i \in 1..(LLM_VALUE_MAX + 4) |-> letters[((i - 1) % 26) + 1]]
        \o <<" ">> \o Digs(<<9,1,1,0,1,2>>) \o <<"-">> \o Digs(<<1,2,3,4,5,6,7>>)
        \o <<" ">> \o Digs(<<0,1,0>>) \o <<"-">> \o Digs(<<1,2,3,4>>)
        \o <<"-">> \o Digs(<<5,6,7,8>>)
        \o <<" ">> \o <<"a", "b", "@", "c", ".", "k", "r">>

\* what the detectors can record on MaskText
MaskCandidates ==
    LET n == LLM_VALUE_MAX + 4
    IN  { llm_item(MaskText, "HEALTH", 0, n),
          llm_item(MaskText, "HEALTH", 0, 60),
          regex_item(MaskText, "RRN", n + 1, n + 15),
          regex_item(MaskText, "RRN(suspect)", n + 1, n + 15),
          regex_item(MaskText, "ACCOUNT", n + 1, n + 15),
          regex_item(MaskText, "MOBILE", n + 16, n + 29),
          regex_item(MaskText, "EMAIL", n + 30, n + 37) }

\* the most items handed to mask_sensitive_info
MaxMaskItems == 3

InitMask ==
    /\ text = MaskText
    /\ \E n \in 0..MaxMaskItems :
          /\ mask_items \in [1..n -> MaskCandidates]
          /\ \A i, j \in 1..n :
                i # j => ~_is_overlapping(mask_items[i].start, mask_items[i].end,
                                          mask_items[j].start, mask_items[j].end)
    /\ mask_idx = 0 /\ masked_text = text /\ offset = 0 /\ masked = <<>>
    /\ ValidatorsIdle /\ ScannerIdle /\ DedupIdle /\ RiskIdle /\ V2Idle /\ CodefIdle /\ UpmIdle /\ AnchorIdle /\ SplitIdle /\ CompIdle

\* one pass of `for item in sorted(detected_items, key=start)`
MaskItem ==
    /\ mask_idx >= 0 /\ mask_idx < Len(mask_items)
    /\ mask_idx' = mask_idx + 1
    /\ LET item  == SortByStart(mask_items)[mask_idx + 1]
           start == item.start + offset
           end   == item.end + offset
       IN  IF item.value # <<>>
           THEN /\ masked' = mask_value(item.type, item.value)
                /\ masked_text' = Slice(masked_text, 0, start) \o masked'
                                  \o Slice(masked_text, end, Len(masked_text))
                /\ offset' = offset + Len(masked') - Len(item.value)
           ELSE UNCHANGED <<masked_text, offset, masked>>
    /\ UNCHANGED <<text, mask_items>>
    /\ UNCHANGED <<validatorVars, scanVars, dedupVars, riskVars, v2Vars, codefVars, upmVars, anchorVars, splitVars, compVars>>

\* return masked_text
MaskReturn ==
    /\ mask_idx = Len(mask_items)
    /\ mask_idx' = -1
    /\ UNCHANGED <<text, mask_items, masked_text, offset, masked>>
    /\ UNCHANGED <<validatorVars, scanVars, dedupVars, riskVars, v2Vars, codefVars, upmVars, anchorVars, splitVars, compVars>>

NextMask == MaskItem \/ MaskReturn

SpecMask == InitMask /\ [][NextMask]_vars

(***************************************************************************)
(* Claims about masking                                                    *)
(***************************************************************************)
\* the item the loop walked last
MaskedItem == SortByStart(mask_items)[mask_idx]

\* C14: the replacement of a value of at least 4 characters, of one of the
\* six identifier types, is the value's first 4 characters followed by '*'
\* for every other character, as long as the value: 911012-1234567 becomes
\* 9110 and ten '*'
C14_MaskKeepsFirstFour ==
    ( /\ mask_idx >= 1
      /\ MaskedItem.type \in {"RRN", "FRN", "PASSPORT", "DL", "CARD", "ACCOUNT"}
      /\ Len(MaskedItem.value) >= 4 )
    => /\ Len(masked) = Len(MaskedItem.value)
       /\ \A i \in 1..Len(masked) :
             masked[i] = IF i <= 4 THEN MaskedItem.value[i] ELSE "*"
       /\ MaskedItem.value = Digs(<<9,1,1,0,1,2>>) \o <<"-">> \o Digs(<<1,2,3,4,5,6,7>>)
             => masked = Digs(<<9,1,1,0>>) \o
                         <<"*", "*", "*", "*", "*", "*", "*", "*", "*", "*">>

\* the resident registration number 911012-1234567 has just been masked
C14_Witness ==
    /\ mask_idx >= 1
    /\ MaskedItem.type = "RRN"
    /\ MaskedItem.value = Digs(<<9,1,1,0,1,2>>) \o <<"-">> \o Digs(<<1,2,3,4,5,6,7>>)
    /\ masked # <<>>

\* the text with every span replaced in place: what lies between the spans,
\* in order, and each span's replacement where the span was
RECURSIVE MaskedInPlace(_, _)
MaskedInPlace(k, pos) ==
    LET items == SortByStart(mask_items)
    IN  IF k > Len(items) THEN Slice(text, pos, Len(text))
        ELSE Slice(text, pos, items[k].start)
             \o (IF items[k].value # <<>>
                 THEN mask_value(items[k].type, items[k].value)
                 ELSE Slice(text, items[k].start, items[k].end))
             \o MaskedInPlace(k + 1, items[k].end)

\* C15: for spans that lie in the text and do not intersect, given in any
\* order, the result keeps every character outside the spans, in order, and
\* has each span's replacement at the span's own place
C15_AsStated ==
    mask_idx = -1 => masked_text = MaskedInPlace(1, 0)

(***************************************************************************)
(* LocalLLMAnalyzer.detect_sensitive_info_v2: the text is cut into chunks  *)
(* and the classifier is asked about each.  A text is given by its length  *)
(* and the positions of its sentence breaks; it has no white space at its  *)
(* ends.  What the classifier does on a call is an input: the request      *)
(* times out, the connection fails, the status is not 200, the body is not *)
(* JSON, the answer holds no JSON object, the object has no 'results', or  *)
(* it has a list of items.  An item is [dict, type, value, pos]: whether   *)
(* it is a JSON object, its type and value, and the position at which      *)
(* chunk.find (or the search by words) finds the value, -1 if nowhere.     *)
(***************************************************************************)
CHUNK_SIZE == 1500
OVERLAP == 150
MIN_TEXT_LEN == 50
MIN_VALUE_LEN == 2

\* _split_text_into_chunks, from `start` on
RECURSIVE _split_text_into_chunks(_, _)
_split_text_into_chunks(doc, start) ==
    IF start >= doc.len THEN <<>>
    ELSE LET full_end   == IF start + CHUNK_SIZE <= doc.len
                           THEN start + CHUNK_SIZE ELSE doc.len
             half       == start + CHUNK_SIZE \div 2
             found      == {b \in doc.breaks : half <= b /\ b < full_end}
             last_break == IF found = {} THEN -1
                           ELSE CHOOSE b \in found : \A c \in found : c <= b
             end        == IF full_end < doc.len /\ last_break > half
                           THEN last_break + 1 ELSE full_end
         IN  << [start_offset |-> start, end_offset |-> end] >>
             \o _split_text_into_chunks(doc, IF end < doc.len
                                             THEN end - OVERLAP ELSE end)

\* the for loop of _deduplicate_sensitive_results over the sorted items
RECURSIVE dedup_loop(_, _, _)
dedup_loop(items, kept, seen) ==
    IF items = <<>> THEN kept
    ELSE LET item == Head(items)
         IN  IF value_key(item) \in seen \/ is_overlapping(item, kept)
             THEN dedup_loop(Tail(items), kept, seen)
             ELSE dedup_loop(Tail(items), Append(kept, item),
                             seen \cup {value_key(item)})

\* _deduplicate_sensitive_results as a function of its argument
_deduplicate_sensitive_results(rs) ==
    IF rs = <<>> THEN <<>> ELSE dedup_loop(SortByStart(rs), <<>>, {})

\* _detect_sensitive_in_chunk_direct up to its handlers: [exc, ret], exc the
\* exception that leaves the try block ("" if none), ret the list returned
\* from inside the block, or by the `return []` after it
chunk_try(chunk_offset, response) ==
    LET type_mapping(t) ==
            CASE t = "religion" -> "belief"
              [] t = "crime" -> "criminal_record"
              [] OTHER -> t
        entry(item) ==
            LET pos          == IF item.pos = -1 THEN 0 ELSE item.pos
                actual_start == chunk_offset + pos
            IN  [ type  |-> type_mapping(item.type),
                  value |-> Slice(item.value, 0, LLM_VALUE_MAX),
                  start |-> actual_start,
                  end   |-> actual_start + Len(item.value) ]
        kept == SelectSeq(response.items,
                          LAMBDA item : Len(item.value) >= MIN_VALUE_LEN)
    IN  IF response.kind = "timeout"
        THEN [exc |-> "Timeout", ret |-> <<>>]
        ELSE IF response.kind = "connection_error"
        THEN [exc |-> "ConnectionError", ret |-> <<>>]
        ELSE IF response.status # 200
        THEN [exc |-> "", ret |-> <<>>]
        ELSE IF response.kind = "not_json"
        THEN [exc |-> "JSONDecodeError", ret |-> <<>>]
        ELSE IF response.kind \in {"no_object", "no_results"}
        THEN [exc |-> "", ret |-> <<>>]
        ELSE IF \E k \in 1..Len(response.items) : ~response.items[k].dict
        THEN [exc |-> "AttributeError", ret |-> <<>>]
        ELSE [exc |-> "", ret |-> [k \in 1..Len(kept) |-> entry(kept[k])]]

\* _detect_sensitive_in_chunk_direct with `except requests.exceptions.Timeout`
\* as its only handler
_detect_sensitive_in_chunk_direct_timeout_only(chunk_offset, response) ==
    LET t == chunk_try(chunk_offset, response)
    IN  IF t.exc = "Timeout" THEN [raised |-> FALSE, ret |-> <<>>]
        ELSE IF t.exc # "" THEN [raised |-> TRUE, ret |-> <<>>]
        ELSE [raised |-> FALSE, ret |-> t.ret]

\* _detect_sensitive_in_chunk_direct: [raised, ret], raised if an exception
\* leaves the function; both handlers log and go on to `return []`
_detect_sensitive_in_chunk_direct(chunk_offset, response) ==
    LET t == chunk_try(chunk_offset, response)
    IN  IF t.exc = "Timeout" THEN [raised |-> FALSE, ret |-> <<>>]
        ELSE IF t.exc # "" THEN [raised |-> FALSE, ret |-> <<>>]
        ELSE [raised |-> FALSE, ret |-> t.ret]

\* texts: empty, one character short of the least length, of the least
\* length, of one chunk, of two chunks with and without a sentence break,
\* of three chunks
V2Docs ==
    { [len |-> 0, breaks |-> {}], [len |-> 49, breaks |-> {}],
      [len |-> 50, breaks |-> {}], [len |-> 1500, breaks |-> {}],
      [len |-> 2000, breaks |-> {}], [len |-> 2000, breaks |-> {750, 1000}],
      [len |-> 3000, breaks |-> {}] }

\* what the classifier can list: a two-character value found at 1400, a
\* 104-character value found at 10, a value found nowhere, a value of one
\* character, an alias of a type, and an item that is no JSON object
V2Items ==
    { [dict |-> TRUE, type |-> "health", value |-> <<"a", "b">>, pos |-> 1400],
      [dict |-> TRUE, type |-> "health", value |-> Fill("h", 104), pos |-> 10],
      [dict |-> TRUE, type |-> "religion", value |-> <<"c", "d">>, pos |-> -1],
      [dict |-> TRUE, type |-> "crime", value |-> <<"e">>, pos |-> 5],
      [dict |-> FALSE, type |-> "", value |-> <<>>, pos |-> -1] }

\* the most items in one answer
MaxItems == 1

\* the item lists an answer about a chunk can hold: positions are those of
\* the text, so a listed value lies inside the chunk
ItemLists(chunk) ==
    LET inside(item) ==
            \/ item.pos = -1
            \/ /\ chunk.start_offset <= item.pos
               /\ item.pos + Len(item.value) <= chunk.end_offset
        here == { [item EXCEPT !.pos = IF item.pos = -1 THEN -1
                                       ELSE item.pos - chunk.start_offset] :
                    item \in {x \in V2Items : inside(x)} }
        lists(n) == [1..n -> here]
    IN  UNION { lists(n) : n \in 0..MaxItems }

\* what can happen on the call for a chunk
ClassifierResponses(chunk) ==
    { [kind |-> k, status |-> 200, items |-> <<>>] :
        k \in {"timeout", "connection_error", "not_json", "no_object",
               "no_results"} }
    \cup { [kind |-> "status", status |-> 500, items |-> <<>>] }
    \cup { [kind |-> "results", status |-> 200, items |-> l] :
             l \in ItemLists(chunk) }

InitV2 ==
    /\ v2_doc \in V2Docs /\ v2_pc = "start"
    /\ chunks = <<>> /\ chunk_i = 0
    /\ calls = <<>> /\ responses = <<>> /\ contrib = <<>>
    /\ all_results = <<>> /\ v2_return = NoResult
    /\ ValidatorsIdle /\ ScannerIdle /\ DedupIdle /\ RiskIdle /\ MaskIdle /\ CodefIdle /\ UpmIdle /\ AnchorIdle /\ SplitIdle /\ CompIdle

\* if not text or len(text.strip()) < 50: return []
V2TooShort ==
    /\ v2_pc = "start"
    /\ v2_doc.len < MIN_TEXT_LEN
    /\ v2_pc' = "done"
    /\ v2_return' = [raised |-> FALSE, list |-> <<>>]
    /\ UNCHANGED <<v2_doc, chunks, chunk_i, calls, responses, contrib, all_results>>
    /\ UNCHANGED <<validatorVars, scanVars, dedupVars, riskVars, maskVars, codefVars, upmVars, anchorVars, splitVars, compVars>>

\* chunks = self._split_text_into_chunks(text, chunk_size=1500, overlap=150)
V2Split ==
    /\ v2_pc = "start"
    /\ v2_doc.len >= MIN_TEXT_LEN
    /\ chunks' = _split_text_into_chunks(v2_doc, 0)
    /\ v2_pc' = "loop"
    /\ UNCHANGED <<v2_doc, chunk_i, calls, responses, contrib, all_results, v2_return>>
    /\ UNCHANGED <<validatorVars, scanVars, dedupVars, riskVars, maskVars, codefVars, upmVars, anchorVars, splitVars, compVars>>

\* one pass of `for i, chunk_info in enumerate(chunks)`: the call of
\* _detect_sensitive_in_chunk_direct, in which requests.post is called once,
\* and all_results.extend; the loop has no handler, so an exception that
\* left the call would leave detect_sensitive_info_v2
V2Chunk ==
    /\ v2_pc = "loop"
    /\ chunk_i < Len(chunks)
    /\ \E response \in ClassifierResponses(chunks[chunk_i + 1]) :
          LET chunk_results == _detect_sensitive_in_chunk_direct(
                                   chunks[chunk_i + 1].start_offset, response)
          IN  /\ calls' = Append(calls, chunk_i + 1)
              /\ responses' = Append(responses, response)
              /\ IF chunk_results.raised
                 THEN /\ v2_pc' = "done"
                      /\ v2_return' = [raised |-> TRUE, list |-> <<>>]
                      /\ UNCHANGED <<chunk_i, contrib, all_results>>
                 ELSE /\ all_results' = all_results \o chunk_results.ret
                      /\ contrib' = Append(contrib, chunk_results.ret)
                      /\ chunk_i' = chunk_i + 1
                      /\ UNCHANGED <<v2_pc, v2_return>>
    /\ UNCHANGED <<v2_doc, chunks>>
    /\ UNCHANGED <<validatorVars, scanVars, dedupVars, riskVars, maskVars, codefVars, upmVars, anchorVars, splitVars, compVars>>

\* deduplicated = self._deduplicate_sensitive_results(all_results);
\* return deduplicated
V2Return ==
    /\ v2_pc = "loop"
    /\ chunk_i = Len(chunks)
    /\ v2_pc' = "done"
    /\ v2_return' = [raised |-> FALSE,
                     list |-> _deduplicate_sensitive_results(all_results)]
    /\ UNCHANGED <<v2_doc, chunks, chunk_i, calls, responses, contrib, all_results>>
    /\ UNCHANGED <<validatorVars, scanVars, dedupVars, riskVars, maskVars, codefVars, upmVars, anchorVars, splitVars, compVars>>

NextV2 == V2TooShort \/ V2Split \/ V2Chunk \/ V2Return

SpecV2 == InitV2 /\ [][NextV2]_vars

(***************************************************************************)
(* Claim about the chunk loop                                              *)
(***************************************************************************)
\* the call ended in one of the failures: a timeout, a failed connection, a
\* status other than 200, or a payload from which no list of well-formed
\* items can be read
ChunkFailed(response) ==
    \/ response.kind # "results"
    \/ \E k \in 1..Len(response.items) : ~response.items[k].dict

\* the findings of the calls that did not fail, in chunk order
RECURSIVE FindingsOfSuccessful(_)
FindingsOfSuccessful(k) ==
    IF k = 0 THEN <<>>
    ELSE FindingsOfSuccessful(k - 1)
         \o (IF ChunkFailed(responses[k]) THEN <<>> ELSE contrib[k])

\* C19: the classifier is called once per chunk, in chunk order and without
\* a retry; a call that fails contributes no span and does not stop the
\* loop; the function ends by returning the deduplicated findings of the
\* calls that succeeded, never by raising
C19_ChunkFailuresIsolated ==
    /\ calls = [k \in 1..Len(calls) |-> k]
    /\ Len(calls) <= Len(chunks)
    /\ \A k \in 1..Len(contrib) : ChunkFailed(responses[k]) => contrib[k] = <<>>
    /\ v2_pc = "done" =>
          /\ ~v2_return.raised
          /\ Len(calls) = Len(chunks)
          /\ Len(contrib) = Len(chunks)
          /\ v2_return.list =
                _deduplicate_sensitive_results(FindingsOfSuccessful(Len(chunks)))

\* three chunks: the first call times out, the second succeeds with a
\* finding, the third answers 500, and the finding is returned
C19_Witness ==
    /\ v2_pc = "done"
    /\ Len(chunks) = 3
    /\ responses[1].kind = "timeout"
    /\ ~ChunkFailed(responses[2]) /\ contrib[2] # <<>>
    /\ responses[3].kind = "status"
    /\ v2_return.list = contrib[2]
    /\ v2_return.list # <<>>

(***************************************************************************)
(* CodefClient.verify_driver_license (src/api/codef_client.py).  What the  *)
(* two endpoints do is an input: [kind, status, exc, token, code, auth].   *)
(* kind is "timeout", "connection_error", "not_json" (the body is no JSON; *)
(* exc names the class response.json() raises, which depends on the        *)
(* version of requests), "not_object" (JSON, but no object) or "json";     *)
(* token is the access_token of a token reply, code and auth the           *)
(* result.code and data.resAuthenticity of an API reply.  The payload of   *)
(* the request is not modelled.                                            *)
(***************************************************************************)
Reply(kind, status, exc, token, code, auth) ==
    [kind |-> kind, status |-> status, exc |-> exc, token |-> token,
     code |-> code, auth |-> auth]

\* replies of the token endpoint
TokenReplies ==
    { Reply("json", 200, "", "test_token", "", ""),
      Reply("json", 200, "", "", "", ""),
      Reply("json", 401, "", "", "", ""),
      Reply("json", 500, "", "", "", ""),
      Reply("timeout", 0, "", "", "", ""),
      Reply("connection_error", 0, "", "", "", ""),
      Reply("not_json", 200, "requests.JSONDecodeError", "", "", ""),
      Reply("not_json", 200, "json.JSONDecodeError", "", "", ""),
      Reply("not_object", 200, "", "", "", "") }

\* replies of the driver-license endpoint
ApiReplies ==
    { Reply("json", 200, "", "", "CF-00000", "1"),
      Reply("json", 200, "", "", "CF-00000", "2"),
      Reply("json", 200, "", "", "CF-00000", ""),
      Reply("json", 200, "", "", "CF-12100", ""),
      Reply("json", 200, "", "", "CF-99999", "1"),
      Reply("json", 401, "", "", "CF-00401", ""),
      Reply("json", 200, "", "", "", ""),
      Reply("timeout", 0, "", "", "", ""),
      Reply("connection_error", 0, "", "", "", ""),
      Reply("not_json", 200, "requests.JSONDecodeError", "", "", ""),
      Reply("not_json", 502, "json.JSONDecodeError", "", "", ""),
      Reply("not_object", 200, "", "", "", "") }

\* requests.exceptions.RequestException and its subclasses
IsRequestException(exc) ==
    exc \in {"Timeout", "ConnectionError", "requests.JSONDecodeError"}

\* the exception requests.post or response.json() raises on a reply, ""
\* if none
RaisedBy(reply) ==
    CASE reply.kind = "timeout" -> "Timeout"
      [] reply.kind = "connection_error" -> "ConnectionError"
      [] reply.kind = "not_json" -> reply.exc
      [] OTHER -> ""

\* _request_token: [exc, token], exc the exception that leaves it
_request_token(reply) ==
    IF RaisedBy(reply) # "" /\ (reply.kind # "not_json" \/ reply.status = 200)
    THEN IF IsRequestException(RaisedBy(reply))
         THEN [exc |-> "Exception", token |-> ""]
         ELSE [exc |-> RaisedBy(reply), token |-> ""]
    ELSE IF reply.status = 200
    THEN IF reply.kind = "not_object"
         THEN [exc |-> "AttributeError", token |-> ""]
         ELSE [exc |-> "", token |-> reply.token]
    ELSE [exc |-> "Exception", token |-> ""]

\* _make_request from requests.post on: the dict returned, [object, code,
\* auth]
_make_request(reply) ==
    LET exc == RaisedBy(reply)
    IN  IF exc = "Timeout"
        THEN [object |-> TRUE, code |-> "TIMEOUT", auth |-> ""]
        ELSE IF IsRequestException(exc)
        THEN [object |-> TRUE, code |-> "NETWORK_ERROR", auth |-> ""]
        ELSE IF exc = "json.JSONDecodeError"
        THEN [object |-> TRUE, code |-> "PARSE_ERROR", auth |-> ""]
        ELSE [object |-> reply.kind = "json", code |-> reply.code,
              auth |-> reply.auth]

\* the result of verify_driver_license when an exception leaves it
Raised(exc) ==
    [raised |-> exc, success |-> FALSE, valid |-> FALSE, status |-> "",
     error_code |-> ""]

\* _parse_driver_license_response with the authenticity left unread
_parse_driver_license_response_any_authenticity(response) ==
    IF ~response.object THEN Raised("AttributeError")
    ELSE IF response.code = "CF-00000"
    THEN [raised |-> "", success |-> TRUE, valid |-> TRUE,
          status |-> "confirmed", error_code |-> ""]
    ELSE [raised |-> "", success |-> FALSE, valid |-> FALSE,
          status |-> "error", error_code |-> response.code]

\* _parse_driver_license_response; the status is "confirmed", "mismatch"
\* or "error" for the three Korean words of the source
_parse_driver_license_response(response) ==
    IF ~response.object THEN Raised("AttributeError")
    ELSE IF response.code = "CF-00000"
    THEN IF response.auth = "1"
         THEN [raised |-> "", success |-> TRUE, valid |-> TRUE,
               status |-> "confirmed", error_code |-> ""]
         ELSE [raised |-> "", success |-> TRUE, valid |-> FALSE,
               status |-> "mismatch", error_code |-> ""]
    ELSE [raised |-> "", success |-> FALSE, valid |-> FALSE,
          status |-> "error", error_code |-> response.code]

\* the most calls of verify_driver_license on one client
MaxCalls == 2

InitCodef ==
    /\ codef_pc = "ready" /\ _token = "" /\ token_reply = NoResult
    /\ api_reply = NoResult /\ api_response = NoResult
    /\ codef_result = NoResult /\ codef_calls = 0
    /\ ValidatorsIdle /\ ScannerIdle /\ DedupIdle /\ RiskIdle /\ MaskIdle /\ V2Idle /\ UpmIdle /\ AnchorIdle /\ SplitIdle /\ CompIdle

\* verify_driver_license is called and reaches self.get_token() in
\* _make_request
CodefVerify ==
    /\ codef_pc = "ready"
    /\ codef_calls < MaxCalls
    /\ codef_calls' = codef_calls + 1
    /\ codef_pc' = "token"
    /\ token_reply' = NoResult /\ api_reply' = NoResult
    /\ api_response' = NoResult /\ codef_result' = NoResult
    /\ UNCHANGED _token
    /\ UNCHANGED <<validatorVars, scanVars, dedupVars, riskVars, maskVars, v2Vars, upmVars, anchorVars, splitVars, compVars>>

\* get_token: the cached token, or _request_token; _make_request calls it
\* before its try block, so an exception leaves verify_driver_license
CodefGetToken ==
    /\ codef_pc = "token"
    /\ IF _token # ""
       THEN /\ codef_pc' = "post"
            /\ UNCHANGED <<_token, token_reply, codef_result>>
       ELSE \E reply \in TokenReplies :
               LET t == _request_token(reply)
               IN  /\ token_reply' = reply
                   /\ _token' = t.token
                   /\ IF t.exc # ""
                      THEN /\ codef_result' = Raised(t.exc)
                           /\ codef_pc' = "ready"
                      ELSE /\ codef_pc' = "post"
                           /\ UNCHANGED codef_result
    /\ UNCHANGED <<api_reply, api_response, codef_calls>>
    /\ UNCHANGED <<validatorVars, scanVars, dedupVars, riskVars, maskVars, v2Vars, upmVars, anchorVars, splitVars, compVars>>

\* the try block of _make_request and its handlers
CodefPost ==
    /\ codef_pc = "post"
    /\ \E reply \in ApiReplies :
          /\ api_reply' = reply
          /\ api_response' = _make_request(reply)
    /\ codef_pc' = "parse"
    /\ UNCHANGED <<_token, token_reply, codef_result, codef_calls>>
    /\ UNCHANGED <<validatorVars, scanVars, dedupVars, riskVars, maskVars, v2Vars, upmVars, anchorVars, splitVars, compVars>>

\* return self._parse_driver_license_response(response)
CodefParse ==
    /\ codef_pc = "parse"
    /\ codef_result' = _parse_driver_license_response(api_response)
    /\ codef_pc' = "ready"
    /\ UNCHANGED <<_token, token_reply, api_reply, api_response, codef_calls>>
    /\ UNCHANGED <<validatorVars, scanVars, dedupVars, riskVars, maskVars, v2Vars, upmVars, anchorVars, splitVars, compVars>>

NextCodef == CodefVerify \/ CodefGetToken \/ CodefPost \/ CodefParse

SpecCodef == InitCodef /\ [][NextCodef]_vars

(***************************************************************************)
(* Claim about the client's failures                                       *)
(***************************************************************************)
\* the request got no answer, or an answer whose body is no JSON, or (the
\* token endpoint) an answer other than 200
NetworkFailed(reply, is_token) ==
    /\ reply # NoResult
    /\ \/ reply.kind \in {"timeout", "connection_error", "not_json"}
       \/ is_token /\ reply.status # 200

\* C20: when the token request or the API request of a call fails,
\* verify_driver_license returns success = False with a reason code and does
\* not raise
C20_AsStated ==
    (/\ codef_pc = "ready" /\ codef_calls > 0
     /\ NetworkFailed(token_reply, TRUE) \/ NetworkFailed(api_reply, FALSE))
        => /\ codef_result.raised = ""
           /\ ~codef_result.success
           /\ codef_result.error_code # ""

\* the call has returned what _parse_driver_license_response made of a
\* response that is a JSON object
Parsed ==
    /\ codef_pc = "ready" /\ api_response # NoResult
    /\ api_response.object

PatternStrings == { <<"a">>, <<"b", "+">>, <<"(">> }

\* re.compile(pattern) raises no re.error
compiles(pattern) == pattern # <<"(">>

\* the keyword arguments of update_pattern, one key each: [key, value]
\* with the value under the field of its kind; "color" is a key no entry has
UpdateKwargs ==
    { [key |-> "pattern", pattern |-> p, type |-> ""] : p \in PatternStrings }
    \cup { [key |-> "type", pattern |-> <<>>, type |-> t] :
             t \in {"keyword", "regex"} }
    \cup { [key |-> "color", pattern |-> <<>>, type |-> ""] }

\* the most entries the registry is grown to
MaxPatterns == 3

\* index of the first entry whose pattern is the given one, 0 if none
first_with(pattern) ==
    IF \E i \in 1..Len(patterns) : patterns[i].pattern = pattern
    THEN CHOOSE i \in 1..Len(patterns) :
            /\ patterns[i].pattern = pattern
            /\ \A j \in 1..(i - 1) : patterns[j].pattern # pattern
    ELSE 0

InitUpm ==
    /\ patterns = <<>> /\ upm_event = <<"created">> /\ scan_errors = {}
    /\ ValidatorsIdle /\ ScannerIdle /\ DedupIdle /\ RiskIdle /\ MaskIdle /\ V2Idle /\ CodefIdle /\ AnchorIdle /\ SplitIdle /\ CompIdle

\* add_pattern(name, pattern, pattern_type)
add_pattern ==
    /\ Len(patterns) < MaxPatterns
    /\ \E pattern \in PatternStrings, pattern_type \in {"keyword", "regex"} :
          IF pattern_type = "regex" /\ ~compiles(pattern)
          THEN /\ upm_event' = <<"add", FALSE>>
               /\ UNCHANGED patterns
          ELSE IF first_with(pattern) # 0
          THEN /\ upm_event' = <<"add", FALSE>>
               /\ UNCHANGED patterns
          ELSE /\ patterns' = Append(patterns,
                     [pattern |-> pattern, type |-> pattern_type,
                      enabled |-> TRUE])
               /\ upm_event' = <<"add", TRUE>>
    /\ UNCHANGED scan_errors
    /\ UNCHANGED <<validatorVars, scanVars, dedupVars, riskVars, maskVars, v2Vars, codefVars, anchorVars, splitVars, compVars>>

\* remove_pattern(pattern)
remove_pattern ==
    /\ \E pattern \in PatternStrings :
          LET i == first_with(pattern)
          IN  IF i # 0
              THEN /\ patterns' = SubSeq(patterns, 1, i - 1)
                                  \o SubSeq(patterns, i + 1, Len(patterns))
                   /\ upm_event' = <<"remove", TRUE>>
              ELSE /\ upm_event' = <<"remove", FALSE>>
                   /\ UNCHANGED patterns
    /\ UNCHANGED scan_errors
    /\ UNCHANGED <<validatorVars, scanVars, dedupVars, riskVars, maskVars, v2Vars, codefVars, anchorVars, splitVars, compVars>>

\* update_pattern(old_pattern, **kwargs)
update_pattern ==
    /\ \E old_pattern \in PatternStrings, kw \in UpdateKwargs :
          LET i == first_with(old_pattern)
          IN  IF i # 0
              THEN /\ patterns' =
                         IF kw.key = "pattern"
                         THEN [patterns EXCEPT ![i].pattern = kw.pattern]
                         ELSE IF kw.key = "type"
                         THEN [patterns EXCEPT ![i].type = kw.type]
                         ELSE patterns
                   /\ upm_event' = <<"update", TRUE>>
              ELSE /\ upm_event' = <<"update", FALSE>>
                   /\ UNCHANGED patterns
    /\ UNCHANGED scan_errors
    /\ UNCHANGED <<validatorVars, scanVars, dedupVars, riskVars, maskVars, v2Vars, codefVars, anchorVars, splitVars, compVars>>

\* toggle_pattern(pattern)
toggle_pattern ==
    /\ \E pattern \in PatternStrings :
          LET i == first_with(pattern)
          IN  IF i # 0
              THEN /\ patterns' = [patterns EXCEPT ![i].enabled = ~@]
                   /\ upm_event' = <<"toggle", TRUE>>
              ELSE /\ upm_event' = <<"toggle", FALSE>>
                   /\ UNCHANGED patterns
    /\ UNCHANGED scan_errors
    /\ UNCHANGED <<validatorVars, scanVars, dedupVars, riskVars, maskVars, v2Vars, codefVars, anchorVars, splitVars, compVars>>

\* detect_in_text: re.finditer raises re.error on a pattern that does not
\* compile; the handler logs it and goes on to the next pattern
detect_in_text ==
    /\ scan_errors' = { patterns[i].pattern : i \in
                          { j \in 1..Len(patterns) :
                              /\ patterns[j].enabled
                              /\ patterns[j].type = "regex"
                              /\ ~compiles(patterns[j].pattern) } }
    /\ upm_event' = <<"detect", TRUE>>
    /\ UNCHANGED patterns
    /\ UNCHANGED <<validatorVars, scanVars, dedupVars, riskVars, maskVars, v2Vars, codefVars, anchorVars, splitVars, compVars>>

NextUpm ==
    add_pattern \/ remove_pattern \/ update_pattern \/ toggle_pattern
    \/ detect_in_text

SpecUpm == InitUpm /\ [][NextUpm]_vars

(***************************************************************************)
(* Claims about the registry of user patterns                              *)
(***************************************************************************)
\* C22: no two entries of the registry have the same raw pattern string
C22_AsStated ==
    \A i, j \in 1..Len(patterns) :
        i # j => patterns[i].pattern # patterns[j].pattern

\* C23: every entry of type regex holds a pattern that compiles, and
\* detect_in_text meets no pattern that does not
C23_AsStated ==
    /\ \A i \in 1..Len(patterns) :
          patterns[i].type = "regex" => compiles(patterns[i].pattern)
    /\ scan_errors = {}

(***************************************************************************)
(* The format-detection operation `validate` of the six validators.        *)
(***************************************************************************)
\* ForeignerRRNValidator.validate; its _is_valid_date is that of
\* RRNValidator
FRN_validate(v) ==
    LET digits == StripSeparators(v) IN
    IF Len(digits) # 13 THEN FALSE
    ELSE IF ~isdigit(digits) THEN FALSE
    ELSE IF ~RRN_is_valid_date(digits) THEN FALSE
    ELSE int(digits[7]) \in {5, 6, 7, 8}

\* CardValidator.validate
Card_validate(v) ==
    LET digits == StripSeparators(v) IN
    IF Len(digits) < 15 \/ Len(digits) > 16 THEN FALSE
    ELSE IF ~isdigit(digits) THEN FALSE
    ELSE IF Cardinality(Range(digits)) = 1 THEN FALSE
    ELSE IF Card_is_sequential(digits) THEN FALSE
    ELSE TRUE

\* PassportValidator.validate
Passport_validate(v) ==
    LET letters == {"A","B","C","D","E","F","G","H","I","J","K","L","M",
                    "N","O","P","Q","R","S","T","U","V","W","X","Y","Z"}
        VALID_TYPE_CODES   == {"M", "S", "D", "R", "G", "O", "P"}
        VALID_SECOND_CODES == {"M", "S", "E", "T", "Z"}
        upper(c) == CASE c = "m" -> "M" [] c = "p" -> "P" [] c = "x" -> "X"
                      [] c = "a" -> "A" [] OTHER -> c
        val      == [i \in 1..Len(strip(v)) |-> upper(strip(v)[i])]
        shape(ls) == \A i \in 1..9 : IF i \in ls THEN val[i] \in letters
                                     ELSE IsDigitChar(val[i])
    IN  IF Len(val) # 9 THEN FALSE
        ELSE IF shape({1}) THEN val[1] \in VALID_TYPE_CODES
        ELSE IF shape({1, 5})
        THEN IF val[1] \notin VALID_TYPE_CODES THEN FALSE
             ELSE val[5] \notin {"I", "O"}
        ELSE IF shape({1, 2})
        THEN IF val[1] = "P" THEN val[2] \in VALID_SECOND_CODES
             ELSE val[1] \in VALID_TYPE_CODES
        ELSE FALSE

\* validator.validate(value), for the validator of the given type
validate(self, v) ==
    CASE self = "RRN" -> RRN_validate(v)
      [] self = "FRN" -> FRN_validate(v)
      [] self = "PASSPORT" -> Passport_validate(v)
      [] self = "DL" -> DL_validate(v)
      [] self = "CARD" -> Card_validate(v)
      [] self = "ACCOUNT" -> Account_validate(v)

\* card numbers that are one digit throughout or a run of consecutive digits
NuisanceCards ==
    { Fill("1", 16), Fill("0", 16), Fill("7", 15),
      Digs(<<0,1,2,3,4,5,6,7,8,9,0,1,2,3,4,5>>),
      Digs(<<0,9,8,7,6,5,4,3,2,1,0,9,8,7,6,5>>),
      Digs(<<0,1,2,3,4,5,6,7,8,9,0,1,2,3,4>>) }

\* passport numbers of the three shapes, with codes in and out of the
\* lists, in small letters and between blanks, and of nuisance digits
PassportNumbers ==
    { <<"M">> \o Digs(<<1,2,3,4,5,6,7,8>>), <<"X">> \o Digs(<<1,2,3,4,5,6,7,8>>),
      <<"M">> \o Digs(<<0,0,0,0,0,0,0,0>>), <<"m">> \o Digs(<<4,7,3,8,2,9,1,5>>),
      <<" ", "M">> \o Digs(<<4,7,3,8,2,9,1,5>>) \o <<" ">>,
      <<"M">> \o Digs(<<1,2,3>>) \o <<"A">> \o Digs(<<4,5,6,7>>),
      <<"M">> \o Digs(<<1,2,3>>) \o <<"I">> \o Digs(<<4,5,6,7>>),
      <<"X">> \o Digs(<<1,2,3>>) \o <<"A">> \o Digs(<<4,5,6,7>>),
      <<"P", "M">> \o Digs(<<1,2,3,4,5,6,7>>), <<"P", "X">> \o Digs(<<1,2,3,4,5,6,7>>),
      <<"S", "X">> \o Digs(<<1,2,3,4,5,6,7>>), <<"X", "M">> \o Digs(<<1,2,3,4,5,6,7>>),
      <<"M">> \o Digs(<<1,2,3,4,5,6,7>>), <<"M">> \o Digs(<<1,2>>) \o <<"-">>
      \o Digs(<<3,4,5,6,7,8>>) }

\* the values handed to validate
FormatInputs ==
    RRNInputs \cup DLInputs \cup CardNumbers \cup NuisanceCards
    \cup AccountValues \cup PassportNumbers

InitFormat ==
    /\ value \in FormatInputs /\ result = NoResult /\ orig = NoResult
    /\ context = <<>> /\ subject_code = NoResult
    /\ ScannerIdle /\ DedupIdle /\ RiskIdle /\ MaskIdle /\ V2Idle /\ CodefIdle /\ UpmIdle /\ AnchorIdle /\ SplitIdle /\ CompIdle

\* accepted = validator.validate(value)
Validate ==
    /\ result = NoResult
    /\ \E self \in {"RRN", "FRN", "PASSPORT", "DL", "CARD", "ACCOUNT"} :
          result' = [validator |-> self, accepted |-> validate(self, value)]
    /\ UNCHANGED <<value, orig, context, subject_code>>
    /\ UNCHANGED <<scanVars, dedupVars, riskVars, maskVars, v2Vars, codefVars, upmVars, anchorVars, splitVars, compVars>>

NextFormat == Validate

SpecFormat == InitFormat /\ [][NextFormat]_vars

(***************************************************************************)
(* Claims about format detection                                           *)
(***************************************************************************)
\* C24: a value that RRNValidator.validate or ForeignerRRNValidator.validate
\* accepts has, in its first six digits read with the century of the
\* seventh, a date of the calendar
C24_AsStated ==
    (/\ result # NoResult
     /\ result.validator \in {"RRN", "FRN"}
     /\ result.accepted)
        => DateExists(ClaimBirthDate)

\* the value has the length, the characters and the structural codes of the
\* validator's type
WellFormed(self) ==
    LET digits == StripSeparators(value)
        n      == Len(digits)
    IN  CASE self \in {"RRN", "FRN"} ->
               /\ n = 13 /\ isdigit(digits)
               /\ DateExists(ClaimBirthDate)
               /\ int(digits[7]) \in (IF self = "RRN" THEN 1..4 ELSE 5..8)
          [] self = "DL" ->
               /\ n = 12 /\ isdigit(digits)
               /\ ToInt(Slice(digits, 0, 2)) \in DL_VALID_REGION_CODES
          [] self = "CARD" -> n \in 15..16 /\ isdigit(digits)
          [] self = "ACCOUNT" -> n \in 10..16 /\ isdigit(digits)
          [] self = "PASSPORT" -> Passport_validate(value)

\* C25: validate accepts every value that has the right length, character
\* set and structural codes, whether or not it is a nuisance pattern
C25_AsStated ==
    result # NoResult => (WellFormed(result.validator) => result.accepted)

(***************************************************************************)
(* Anchoring a classifier item in its chunk (src/core/analyzer.py,         *)
(* _detect_sensitive_in_chunk_direct and                                   *)
(* _detect_confidential_in_chunk_direct).  Both methods locate the value   *)
(* of an item with the same statements.                                    *)
(***************************************************************************)
\* str.find: the lowest 0-based index at which sub occurs in s, -1 if none
find(s, sub) ==
    LET hits == { k \in 0..(Len(s) - Len(sub)) :
                    SubSeq(s, k + 1, k + Len(sub)) = sub }
    IN  IF hits = {} THEN -1
        ELSE CHOOSE k \in hits : \A h \in hits : k <= h

\* str.split(): the maximal runs of characters that are not whitespace
RECURSIVE split(_)
split(s) ==
    IF s = <<>> THEN <<>>
    ELSE IF Head(s) = " " THEN split(Tail(s))
    ELSE LET stops == { k \in 1..Len(s) : s[k] = " " }
             n == IF stops = {} THEN Len(s)
                  ELSE (CHOOSE k \in stops : \A h \in stops : k <= h) - 1
         IN  <<SubSeq(s, 1, n)>> \o split(SubSeq(s, n + 1, Len(s)))

\* a word is tried only when it is longer than this
WORD_MIN_LEN == 3

\* the loop "for word in value_words": pos after the loop, entered with -1
RECURSIVE word_loop(_, _)
word_loop(chunk, value_words) ==
    IF value_words = <<>> THEN -1
    ELSE IF /\ Len(Head(value_words)) > WORD_MIN_LEN
            /\ find(chunk, Head(value_words)) # -1
         THEN find(chunk, Head(value_words))
         ELSE word_loop(chunk, Tail(value_words))

\* pos of an item that anchors at the longest word of the value that occurs
locate_longest_token(chunk, v) ==
    LET value_words == split(v)
        occurring == { i \in 1..Len(value_words) :
                         find(chunk, value_words[i]) # -1 }
    IN  IF find(chunk, v) # -1 THEN find(chunk, v)
        ELSE IF occurring = {} THEN 0
        ELSE find(chunk, value_words[CHOOSE i \in occurring :
                \A j \in occurring :
                    Len(value_words[i]) >= Len(value_words[j])])

\* pos of an item: chunk.find(value), else the word loop, else 0
locate(chunk, v) ==
    LET pos == find(chunk, v)
        partial == IF pos = -1 THEN word_loop(chunk, split(v)) ELSE pos
    IN  IF partial = -1 THEN 0 ELSE partial

\* words a classifier value and a chunk are made of
AnchorWords ==
    { <<"a">>, <<"x", "y", "z">>, <<"a", "b", "c", "d">>, <<"b", "c", "d", "e">>, <<"a", "b", "c", "d", "e", "f">> }

\* s1 + sep + s2
Joined(s1, sep, s2) == s1 \o sep \o s2

\* the values of classifier items: one word, or two with a blank between
AnchorValues ==
    AnchorWords
    \cup { Joined(w1, <<" ">>, w2) : w1, w2 \in AnchorWords }

\* chunks: none, one or two of the words, written with a blank or with a
\* comma and a blank between them, behind nothing or behind "z "
AnchorChunks ==
    LET bodies == { <<>> } \cup AnchorWords
                  \cup { Joined(w1, sep, w2) :
                           w1, w2 \in AnchorWords,
                           sep \in { <<" ">>, <<",", " ">> } }
    IN  { lead \o b : lead \in { <<>>, <<"z", " ">> }, b \in bodies }

\* chunk offsets: the first chunk of a document and a later one
AnchorOffsets == { 0, CHUNK_SIZE - OVERLAP }

InitAnchor ==
    /\ located = NoResult
    /\ ValidatorsIdle /\ ScannerIdle /\ DedupIdle /\ RiskIdle /\ MaskIdle /\ V2Idle /\ CodefIdle /\ UpmIdle /\ SplitIdle /\ CompIdle

\* the span made of one item of parsed['results'] in either method; an item
\* whose value is shorter than two characters is skipped
anchor_item(fn, chunk, chunk_offset, v) ==
    LET pos == locate(chunk, v)
        actual_start == chunk_offset + pos
    IN  [ fn |-> fn, chunk |-> chunk, offset |-> chunk_offset, value |-> v,
          skipped |-> Len(v) < MIN_VALUE_LEN,
          start |-> actual_start,
          end |-> actual_start + Len(v) ]

\* a call of _detect_sensitive_in_chunk_direct whose response parses to a
\* results list: no item looked at yet
SensitiveChunkCall ==
    /\ located = NoResult
    /\ \E chunk \in AnchorChunks, o \in AnchorOffsets :
          located' = [ fn |-> "sensitive", chunk |-> chunk, offset |-> o,
                       value |-> <<>>, skipped |-> TRUE,
                       start |-> 0, end |-> 0 ]
    /\ UNCHANGED <<validatorVars, scanVars, dedupVars, riskVars, maskVars, v2Vars, codefVars, upmVars, splitVars, compVars>>

\* the same of _detect_confidential_in_chunk_direct
ConfidentialChunkCall ==
    /\ located = NoResult
    /\ \E chunk \in AnchorChunks, o \in AnchorOffsets :
          located' = [ fn |-> "confidential", chunk |-> chunk, offset |-> o,
                       value |-> <<>>, skipped |-> TRUE,
                       start |-> 0, end |-> 0 ]
    /\ UNCHANGED <<validatorVars, scanVars, dedupVars, riskVars, maskVars, v2Vars, codefVars, upmVars, splitVars, compVars>>

\* the body of "for item in parsed['results']" for the next item
ChunkItem ==
    /\ located # NoResult
    /\ \E v \in AnchorValues :
          located' = anchor_item(located.fn, located.chunk, located.offset, v)
    /\ UNCHANGED <<validatorVars, scanVars, dedupVars, riskVars, maskVars, v2Vars, codefVars, upmVars, splitVars, compVars>>

\* return detected
ChunkReturn ==
    /\ located # NoResult
    /\ located' = NoResult
    /\ UNCHANGED <<validatorVars, scanVars, dedupVars, riskVars, maskVars, v2Vars, codefVars, upmVars, splitVars, compVars>>

NextAnchor ==
    \/ SensitiveChunkCall
    \/ ConfidentialChunkCall
    \/ ChunkItem
    \/ ChunkReturn

SpecAnchor == InitAnchor /\ [][NextAnchor]_vars

\* the span was made of a value that is no verbatim substring of the chunk
FellBack ==
    /\ located # NoResult
    /\ ~located.skipped
    /\ find(located.chunk, located.value) = -1

\* the words of the located value, by their index, that occur in the chunk
OccurringWords ==
    { i \in 1..Len(split(located.value)) :
        find(located.chunk, split(located.value)[i]) # -1 }

\* C26 as stated: a span made of a value that is no verbatim substring of
\* its chunk starts where the longest word of the value that occurs in the
\* chunk is found, and at the chunk's offset when no word of the value
\* occurs in the chunk.
C26_AsStated ==
    FellBack =>
        IF OccurringWords = {} THEN located.start = located.offset
        ELSE \E i \in OccurringWords :
                /\ \A j \in OccurringWords :
                      Len(split(located.value)[i]) >= Len(split(located.value)[j])
                /\ located.start = located.offset
                      + find(located.chunk, split(located.value)[i])

\* the occurring words that are longer than three characters
LongOccurringWords ==
    { i \in OccurringWords : Len(split(located.value)[i]) > WORD_MIN_LEN }

\* C26 amended: a span made of a value that is no verbatim substring of its
\* chunk starts where the first word of the value that is longer than three
\* characters and occurs in the chunk is found, and at the chunk's offset
\* when no such word occurs in the chunk.
C26_FirstLongToken ==
    FellBack =>
        IF LongOccurringWords = {} THEN located.start = located.offset
        ELSE \E i \in LongOccurringWords :
                /\ \A j \in LongOccurringWords : i <= j
                /\ located.start = located.offset
                      + find(located.chunk, split(located.value)[i])

\* a fallen-back span anchored at the first of two occurring long words,
\* the second of which is the longer and stands elsewhere in the chunk
C26_Witness ==
    /\ FellBack
    /\ LongOccurringWords = {1, 2}
    /\ Len(split(located.value)[2]) > Len(split(located.value)[1])
    /\ located.start = located.offset
          + find(located.chunk, split(located.value)[1])
    /\ find(located.chunk, split(located.value)[1])
          # find(located.chunk, split(located.value)[2])
    /\ located.start > located.offset

(***************************************************************************)
(* The while loop of _split_text_into_chunks, one iteration a step         *)
(* (src/core/analyzer.py).  A text is its length and the set of offsets    *)
(* that hold a sentence-ending character; a chunk is the pair of offsets   *)
(* its text is sliced with.                                                *)
(***************************************************************************)
\* end of the chunk that starts at start, after the break search
chunk_end(doc, start) ==
    LET end        == IF start + CHUNK_SIZE <= doc.len
                      THEN start + CHUNK_SIZE ELSE doc.len
        half       == start + CHUNK_SIZE \div 2
        found      == { b \in doc.breaks : half <= b /\ b < end }
        last_break == IF found = {} THEN -1
                      ELSE CHOOSE b \in found : \A c \in found : c <= b
    IN  IF end < doc.len /\ last_break > half THEN last_break + 1 ELSE end

\* the next start with no overlap applied
next_start_at_end(doc, end) ==
    end

\* start = end - overlap if end < len(text) else end
next_start(doc, end) ==
    IF end < doc.len THEN end - OVERLAP ELSE end

\* lengths of the texts split
SplitLengths ==
    { 0, 1, 150, 751, 1500, 1501, 1650, 2850, 2851, 3000, 4200 }

\* offsets that may hold a sentence-ending character
SplitBreakOffsets ==
    { 0, 749, 750, 751, 1352, 1499, 1500, 2100 }

SplitDocs ==
    { [len |-> n, breaks |-> bs] :
        n \in SplitLengths,
        bs \in SUBSET { b \in SplitBreakOffsets : b < 3000 } }

InitSplit ==
    /\ split_doc = NoResult /\ split_pc = "idle"
    /\ split_start = 0 /\ split_chunks = <<>>
    /\ ValidatorsIdle /\ ScannerIdle /\ DedupIdle /\ RiskIdle /\ MaskIdle /\ V2Idle /\ CodefIdle /\ UpmIdle /\ AnchorIdle /\ CompIdle

\* the call: chunks = [], start = 0
SplitCall ==
    /\ split_pc \in {"idle", "done"}
    /\ \E doc \in { d \in SplitDocs : d.breaks \subseteq 0..(d.len - 1) } :
          split_doc' = doc
    /\ split_pc' = "loop"
    /\ split_start' = 0
    /\ split_chunks' = <<>>
    /\ UNCHANGED <<validatorVars, scanVars, dedupVars, riskVars, maskVars, v2Vars, codefVars, upmVars, anchorVars, compVars>>

\* one iteration of "while start < len(text)"
SplitIterate ==
    /\ split_pc = "loop"
    /\ split_start < split_doc.len
    /\ LET end == chunk_end(split_doc, split_start)
       IN  /\ split_chunks' = Append(split_chunks,
                  [start_offset |-> split_start, end_offset |-> end])
           /\ split_start' = next_start(split_doc, end)
    /\ UNCHANGED <<split_doc, split_pc>>
    /\ UNCHANGED <<validatorVars, scanVars, dedupVars, riskVars, maskVars, v2Vars, codefVars, upmVars, anchorVars, compVars>>

\* the loop condition fails: return chunks
SplitReturn ==
    /\ split_pc = "loop"
    /\ ~(split_start < split_doc.len)
    /\ split_pc' = "done"
    /\ UNCHANGED <<split_doc, split_start, split_chunks>>
    /\ UNCHANGED <<validatorVars, scanVars, dedupVars, riskVars, maskVars, v2Vars, codefVars, upmVars, anchorVars, compVars>>

NextSplit ==
    \/ SplitCall
    \/ SplitIterate
    \/ SplitReturn

SpecSplit == InitSplit /\ [][NextSplit]_vars

\* the loop runs without waiting for anything: an iteration that can be
\* made is made, and so is the return
SpecSplitLive ==
    SpecSplit /\ WF_vars(SplitIterate) /\ WF_vars(SplitReturn)

\* the chunks made so far: in increasing order from offset 0, non-empty, at
\* most CHUNK_SIZE long, inside the text, each later one starting OVERLAP
\* before the end of the one before it
ChunksWellFormed ==
    /\ \A i \in 1..Len(split_chunks) :
          /\ 0 <= split_chunks[i].start_offset
          /\ split_chunks[i].start_offset < split_chunks[i].end_offset
          /\ split_chunks[i].end_offset <= split_doc.len
          /\ split_chunks[i].end_offset - split_chunks[i].start_offset
                <= CHUNK_SIZE
    /\ Len(split_chunks) > 0 => split_chunks[1].start_offset = 0
    /\ \A i \in 2..Len(split_chunks) :
          /\ split_chunks[i].start_offset
                = split_chunks[i-1].end_offset - OVERLAP
          /\ split_chunks[i].start_offset > split_chunks[i-1].start_offset
          /\ split_chunks[i].end_offset > split_chunks[i-1].end_offset

\* the returned chunks reach the end of the text and leave out no character
ChunksCover ==
    split_pc = "done" =>
        /\ split_doc.len > 0 =>
              /\ Len(split_chunks) > 0
              /\ split_chunks[Len(split_chunks)].end_offset = split_doc.len
        /\ \A p \in 0..(split_doc.len - 1) :
              \E i \in 1..Len(split_chunks) :
                 /\ split_chunks[i].start_offset <= p
                 /\ p < split_chunks[i].end_offset
        /\ split_chunks = _split_text_into_chunks(split_doc, 0)

\* C27: _split_text_into_chunks(text, 1500, 150) terminates, and its chunks
\* are in increasing order, the first starting at 0, the last ending at
\* len(text), each non-empty and at most 1500 long, each later one starting
\* exactly 150 before the end of the one before it, so that every character
\* of the text is in some chunk.
C27_SplitTerminatesAndCovers ==
    /\ [](split_pc # "idle" => ChunksWellFormed /\ ChunksCover)
    /\ (split_pc = "loop" ~> split_pc = "done")

\* a returned split of three or more chunks, one of them cut at a
\* sentence end
C27_Witness ==
    /\ split_pc = "done"
    /\ Len(split_chunks) >= 3
    /\ \E i \in 1..(Len(split_chunks) - 1) :
          /\ split_chunks[i].end_offset - split_chunks[i].start_offset
                < CHUNK_SIZE
          /\ (split_chunks[i].end_offset - 1) \in split_doc.breaks

(***************************************************************************)
(* ForeignerRRNValidator.validate_full and CardValidator.validate_full     *)
(* (src/validators), which the post-merge filter calls.                    *)
(***************************************************************************)
\* ForeignerRRNValidator.get_birth_date: the <<year, month, day>> handed to
\* date(...)
FRN_get_birth_date(v) ==
    LET digits == StripSeparators(v)
        yy     == ToInt(Slice(digits, 0, 2))
        gender == int(digits[7])
    IN  << IF gender \in {7, 8} THEN yy + 2000 ELSE yy + 1900,
           ToInt(Slice(digits, 2, 4)),
           ToInt(Slice(digits, 4, 6)) >>

\* ForeignerRRNValidator.validate_full
FRN_validate_full(v) ==
    IF is_test_rrn(v) THEN <<FALSE, "">>
    ELSE IF ~FRN_validate(v) THEN <<FALSE, "">>
    ELSE IF /\ DateExists(FRN_get_birth_date(v))
            /\ DateBefore(FRN_get_birth_date(v), CHECKSUM_CUTOFF_DATE)
         THEN (IF RRN_verify_checksum(v) THEN <<TRUE, "FRN">> ELSE <<FALSE, "">>)
         ELSE <<TRUE, "FRN(suspect)">>

CARD_TEST_PATTERNS ==
    { Digs(<<0,0,0,0,0,0,0,0,0,0,0,0,0,0,0,0>>),
      Digs(<<1,1,1,1,1,1,1,1,1,1,1,1,1,1,1,1>>),
      Digs(<<1,2,3,4,5,6,7,8,9,0,1,2,3,4,5,6>>),
      Digs(<<4,1,1,1,1,1,1,1,1,1,1,1,1,1,1,1>>),
      Digs(<<5,5,0,0,0,0,0,0,0,0,0,0,0,0,0,4>>),
      Digs(<<3,7,8,2,8,2,2,4,6,3,1,0,0,0,5>>) }

\* BaseValidator.is_test_card
is_test_card(v) ==
    \/ is_invalid_pattern("CardValidator", DigitsOnly(v))
    \/ DigitsOnly(v) \in CARD_TEST_PATTERNS

\* CardValidator.validate_full
Card_validate_full(v) ==
    IF is_test_card(v) THEN <<FALSE, "">>
    ELSE IF ~Card_validate(v) THEN <<FALSE, "">>
    ELSE IF verify_luhn(v) THEN <<TRUE, "CARD">>
    ELSE <<FALSE, "">>

(***************************************************************************)
(* LocalLLMAnalyzer._apply_checksum_filter (src/core/analyzer.py)          *)
(***************************************************************************)
\* v[i..] begins with n digits (i counted from 1)
DigitsAt(v, i, n) ==
    i + n - 1 <= Len(v) /\ \A k \in i..(i + n - 1) : IsDigitChar(v[k])

\* a character [\s-] stands at v[i]
SepAt(v, i) == i <= Len(v) /\ v[i] \in {" ", "-"}

\* re.search of the entries of test_patterns
test_pattern_found(v) ==
    \/ \E p \in { Digs(<<1,2,3,4,5,6,7>>), Digs(<<0,0,0,0,0,0,0>>),
                  Digs(<<1,1,1,1,1,1,1>>), Digs(<<1,2,3,4,5,6>>),
                  Digs(<<0,0,0,0,0,0>>) } : IsSubstring(p, v)
    \/ \E i \in 1..(Len(v) - 3) :
          IsDigitChar(v[i]) /\ \A k \in 1..3 : v[i + k] = v[i]

\* length of the match of \d{6}[\s-]?\d{7} that begins at v[i], 0 if none
rrn_match_len(v, i) ==
    IF ~DigitsAt(v, i, 6) THEN 0
    ELSE IF SepAt(v, i + 6) /\ DigitsAt(v, i + 7, 7) THEN 14
    ELSE IF DigitsAt(v, i + 6, 7) THEN 13
    ELSE 0

\* length of the match of \d{4}([\s-]?\d{4}){groups} that begins at v[i], 0
\* if none
RECURSIVE card_match_len(_, _, _)
card_match_len(v, i, groups) ==
    IF ~DigitsAt(v, i, 4) THEN 0
    ELSE IF groups = 0 THEN 4
    ELSE LET from == IF SepAt(v, i + 4) THEN i + 5 ELSE i + 4
             rest == card_match_len(v, from, groups - 1)
         IN  IF rest = 0 THEN 0 ELSE (from - i) + rest

\* pattern.findall(v) from v[i] on, the pattern given by its match length
RECURSIVE findall_from(_, _, _)
findall_from(kind, v, i) ==
    IF i > Len(v) THEN <<>>
    ELSE LET n == IF kind = "rrn" THEN rrn_match_len(v, i)
                  ELSE card_match_len(v, i, 3)
         IN  IF n > 0 THEN <<SubSeq(v, i, i + n - 1)>> \o findall_from(kind, v, i + n)
             ELSE findall_from(kind, v, i + 1)

\* should_exclude of an item, from its value
should_exclude(v) ==
    LET rrn_matches  == findall_from("rrn", v, 1)
        card_matches == findall_from("card", v, 1)
        hyphened(c)  == Slice(c, 0, 6) \o <<"-">> \o Slice(c, 6, Len(c))
    IN  \/ test_pattern_found(v)
        \/ \E k \in 1..Len(rrn_matches) :
              LET rrn_clean == StripSeparators(rrn_matches[k])
              IN  /\ Len(rrn_clean) = 13
                  /\ ~RRN_validate_full(hyphened(rrn_clean))[1]
                  /\ ~FRN_validate_full(hyphened(rrn_clean))[1]
        \/ \E k \in 1..Len(card_matches) :
              LET card_clean == StripSeparators(card_matches[k])
              IN  Len(card_clean) = 16 /\ ~Card_validate_full(card_clean)[1]

\* _apply_checksum_filter
_apply_checksum_filter(items) ==
    SelectSeq(items, LAMBDA item : ~should_exclude(item.value))

(***************************************************************************)
(* LocalLLMAnalyzer.comprehensive_analysis (src/core/analyzer.py), a stage *)
(* a step.  A document is its text and the matches re.finditer yields on   *)
(* it, type by type in PRIORITY_ORDER and from left to right.  The texts   *)
(* are shorter than one chunk.  An item keeps type, value, start, end,     *)
(* legal_category, method, confidence and score ("" and 10 where the       *)
(* source sets none).                                                      *)
(***************************************************************************)
\* the legal classes of the module docstring
_get_legal_category(info_type) ==
    IF info_type \in {"RRN", "FRN", "PASSPORT", "DL"} THEN "unique_identifier"
    ELSE IF info_type \in {"CARD", "ACCOUNT"} THEN "financial"
    ELSE "general"

\* validate_full of the validator of a type on a matched value
validate_full_of(info_type, v) ==
    CASE info_type = "RRN" -> RRN_validate_full(v)
      [] info_type = "FRN" -> FRN_validate_full(v)
      [] info_type = "CARD" -> Card_validate_full(v)
      [] OTHER -> <<>>

\* the body of the finditer loop of detect_sensitive_info_regex over the
\* first k matches: <<detected, detected_ranges>>
RECURSIVE regex_loop(_, _)
regex_loop(doc, k) ==
    IF k = 0 THEN << <<>>, <<>> >>
    ELSE LET before == regex_loop(doc, k - 1)
             m      == doc.matches[k]
             v      == strip(Slice(doc.text, m.start, m.end))
             vc     == _validate_with_context(m.info_type,
                           validate_full_of(m.info_type, v))
         IN  IF \E r \in Range(before[2]) :
                    _is_overlapping(m.start, m.end, r[1], r[2])
             THEN before
             ELSE << Append(before[1],
                       [ type |-> display_type(m.info_type, vc[2]),
                         value |-> v, start |-> m.start, end |-> m.end,
                         legal_category |-> _get_legal_category(m.info_type),
                         method |-> "regex", confidence |-> vc[2],
                         score |-> 10 ]),
                     Append(before[2], <<m.start, m.end>>) >>

\* detect_sensitive_info_regex on a document
detect_sensitive_info_regex(doc) ==
    SortByStart(regex_loop(doc, Len(doc.matches))[1])

\* the items _detect_sensitive_in_chunk_direct (legal_category sensitive) or
\* _detect_confidential_in_chunk_direct (trade_secret) makes of the values
\* the classifier lists for the one chunk of the text
RECURSIVE chunk_items(_, _, _)
chunk_items(txt, listed, category) ==
    IF listed = <<>> THEN <<>>
    ELSE LET span == anchor_item(category, txt, 0, Head(listed))
         IN  (IF span.skipped THEN <<>>
              ELSE << [ type |-> category,
                        value |-> Slice(span.value, 0, LLM_VALUE_MAX),
                        start |-> span.start, end |-> span.end,
                        legal_category |-> category,
                        method |-> "llm_direct", confidence |-> "",
                        score |-> 10 ] >>)
             \o chunk_items(txt, Tail(listed), category)

\* detect_sensitive_info_v2 and detect_confidential_info: nothing for a text
\* of fewer than 50 characters, nothing when the classifier cannot be
\* reached, else the deduplicated items of the chunk
detect_with_classifier(txt, reachable, listed, category) ==
    IF Len(strip(txt)) < MIN_TEXT_LEN THEN <<>>
    ELSE IF ~reachable THEN <<>>
    ELSE _deduplicate_sensitive_results(chunk_items(txt, listed, category))

\* the keyword branch of detect_in_text for one enabled keyword, from
\* offset pos on
RECURSIVE keyword_items(_, _, _)
keyword_items(txt, entry, pos) ==
    LET tail == SubSeq(txt, pos + 1, Len(txt))
        at   == find(lower(tail), lower(entry.pattern))
    IN  IF at = -1 THEN <<>>
        ELSE << [ type |-> "user",
                  value |-> Slice(txt, pos + at, pos + at + Len(entry.pattern)),
                  start |-> pos + at,
                  end |-> pos + at + Len(entry.pattern),
                  legal_category |-> "custom",
                  method |-> "user_pattern", confidence |-> "high",
                  score |-> entry.score ] >>
             \o keyword_items(txt, entry, pos + at + 1)

\* one of the three merge loops of comprehensive_analysis: <<all_detected,
\* existing_ranges>> after the items are walked
RECURSIVE merge_items(_, _)
merge_items(acc, items) ==
    IF items = <<>> THEN acc
    ELSE LET item   == Head(items)
             is_dup == \E r \in Range(acc[2]) :
                          _is_overlapping(item.start, item.end, r[1], r[2])
         IN  merge_items(IF is_dup THEN acc
                         ELSE << Append(acc[1], item),
                                 Append(acc[2], <<item.start, item.end>>) >>,
                         Tail(items))

\* existing_ranges = [(d['start'], d['end']) for d in regex_detected]
ranges_of(items) == [i \in 1..Len(items) |-> <<items[i].start, items[i].end>>]

\* _create_enhanced_analysis: the regex and classifier items merged, scored
\* with the weights of its own
_create_enhanced_analysis(regex_items, sensitive_items, confidential_items) ==
    LET merged == merge_items(merge_items(<<regex_items, ranges_of(regex_items)>>,
                                          sensitive_items),
                              confidential_items)[1]
        counts == category_counts(merged)
        weighted ==
            counts["unique_identifier"] * 20 + counts["financial"] * 15
            + counts["sensitive"] * 12 + counts["trade_secret"] * 12
            + counts["general"] * 5
        active_categories == Cardinality({c \in DOMAIN counts : counts[c] > 0})
        uncapped == weighted + breadth_bonus(active_categories)
                    + volume_bonus(Len(merged))
        risk_score == IF uncapped <= 100 THEN uncapped ELSE 100
    IN  [ risk_level |-> risk_level_for(risk_score),
          risk_score |-> [num |-> risk_score],
          recommendations |-> <<>> ]

\* filler that holds nothing a pattern or the classifier can point at
Pad == Fill("x", 40)

\* texts, with the matches of the resident-number, card and e-mail patterns:
\* a resident number with a right check digit that holds 0000, one that
\* holds no test pattern, one with a wrong check digit, an e-mail address
\* with and without a run of one digit, a card number that fails the Luhn
\* test, a sentence about a person's health, and a text of fewer than 50
\* characters
CompDocs ==
    { [ text |-> <<"i", "d", " ", "9", "0", "0", "1", "0", "1", "-", "1", "0", "0", "0", "0", "1", "1", " ">> \o Pad,
        matches |-> << [info_type |-> "RRN", start |-> 3, end |-> 17] >> ],
      [ text |-> <<"i", "d", " ", "9", "0", "0", "1", "0", "1", "-", "2", "0", "4", "5", "8", "2", "0", " ">> \o Pad,
        matches |-> << [info_type |-> "RRN", start |-> 3, end |-> 17] >> ],
      [ text |-> <<"i", "d", " ", "9", "0", "0", "1", "0", "1", "-", "2", "0", "4", "5", "8", "2", "1", " ">> \o Pad,
        matches |-> << [info_type |-> "RRN", start |-> 3, end |-> 17] >> ],
      [ text |-> <<"i", "d", " ", "9", "0", "0", "1", "0", "1", "-", "2", "0", "4", "5", "8", "2", "0", " ", "t", "o", " ", "a", "b", "@", "c", ".", "k", "r", " ">> \o Pad,
        matches |-> << [info_type |-> "RRN", start |-> 3, end |-> 17],
                       [info_type |-> "EMAIL", start |-> 21, end |-> 28] >> ],
      [ text |-> <<"t", "o", " ", "a", "1", "1", "1", "1", "@", "b", ".", "k", "r", " ">> \o Pad,
        matches |-> << [info_type |-> "EMAIL", start |-> 3, end |-> 13] >> ],
      [ text |-> <<"p", "a", "y", " ", "4", "5", "3", "2", "-", "0", "1", "5", "1", "-", "1", "2", "8", "3", "-", "0", "3", "6", "7", " ">> \o Pad,
        matches |-> << [info_type |-> "CARD", start |-> 4, end |-> 23] >> ],
      [ text |-> <<"p", "a", "t", "i", "e", "n", "t", " ", "h", "a", "s", " ", "d", "i", "a", "b", "e", "t", "e", "s", " ">> \o Pad \o <<" ", "a", "b", "c", "d">>,
        matches |-> <<>> ],
      [ text |-> <<"i", "d", " ", "9", "0", "0", "1", "0", "1", "-", "2", "0", "4", "5", "8", "2", "0">>,
        matches |-> << [info_type |-> "RRN", start |-> 3, end |-> 17] >> ] }

\* what the classifier lists as sensitive: nothing, a value that stands in
\* the text, one that does not, one of which only a word does, a resident
\* number with a wrong check digit
SensitiveAnswers ==
    { <<>>, << <<"d", "i", "a", "b", "e", "t", "e", "s">> >>, << <<"c", "a", "n", "c", "e", "r">> >>, << <<"a", "b", "c", "d", " ", "e", "f", "g", "h">> >>,
      << <<"9", "0", "0", "1", "0", "1", "-", "2", "0", "4", "5", "8", "2", "1">> >> }

\* what it lists as trade secrets
ConfidentialAnswers == { <<>>, << <<"p", "a", "t", "i", "e", "n", "t">> >> }

\* what analyze_with_llm gets from a reachable classifier: an answer that
\* does not parse, or a parsed assessment
AssessmentAnswers ==
    { [parsed |-> FALSE, risk_level |-> "", risk_score |-> [num |-> 0]],
      [parsed |-> TRUE, risk_level |-> "low", risk_score |-> [num |-> 10]],
      [parsed |-> TRUE, risk_level |-> "high", risk_score |-> [num |-> 60]] }

\* the enabled entries of the pattern manager: none, or one keyword
UserPatternSets ==
    { <<>>,
      << [pattern |-> <<"i", "d">>, score |-> 10] >>,
      << [pattern |-> <<"9", "0", "0", "1", "0", "1">>, score |-> 5] >>,
      << [pattern |-> <<"a">>, score |-> 1] >> }

\* a run: the classifier is out of reach for all of it, or it answers every
\* call, each kind of call in one way
CompEnvs ==
    { [ reachable |-> FALSE, sensitive |-> <<>>, confidential |-> <<>>,
        assessment |-> [parsed |-> FALSE, risk_level |-> "",
                        risk_score |-> [num |-> 0]],
        user_patterns |-> u ] : u \in UserPatternSets }
    \cup { [ reachable |-> TRUE, sensitive |-> a, confidential |-> c,
             assessment |-> g, user_patterns |-> u ] :
             a \in SensitiveAnswers, c \in ConfidentialAnswers,
             g \in AssessmentAnswers, u \in UserPatternSets }

InitComp ==
    /\ comp_pc = "idle" /\ comp_doc = NoResult /\ comp_env = NoResult
    /\ regex_detected = <<>> /\ sensitive_detected = <<>>
    /\ confidential_detected = <<>> /\ user_pattern_detected = <<>>
    /\ all_detected = <<>> /\ comp_analysis = NoResult
    /\ ValidatorsIdle /\ ScannerIdle /\ DedupIdle /\ RiskIdle /\ MaskIdle /\ V2Idle /\ CodefIdle /\ UpmIdle /\ AnchorIdle /\ SplitIdle

\* the call
CompCall ==
    /\ comp_pc = "idle"
    /\ comp_doc' \in CompDocs
    /\ comp_env' \in CompEnvs
    /\ comp_pc' = "regex"
    /\ UNCHANGED <<regex_detected, sensitive_detected, confidential_detected,
                   user_pattern_detected, all_detected, comp_analysis>>
    /\ UNCHANGED <<validatorVars, scanVars, dedupVars, riskVars, maskVars, v2Vars, codefVars, upmVars, anchorVars, splitVars>>

\* stage 1: regex_detected = self.detect_sensitive_info_regex(text)
CompRegex ==
    /\ comp_pc = "regex"
    /\ regex_detected' = detect_sensitive_info_regex(comp_doc)
    /\ comp_pc' = "sensitive"
    /\ UNCHANGED <<comp_doc, comp_env, sensitive_detected, confidential_detected,
                   user_pattern_detected, all_detected, comp_analysis>>
    /\ UNCHANGED <<validatorVars, scanVars, dedupVars, riskVars, maskVars, v2Vars, codefVars, upmVars, anchorVars, splitVars>>

\* stage 2: sensitive_detected = self.detect_sensitive_info_v2(text)
CompSensitive ==
    /\ comp_pc = "sensitive"
    /\ sensitive_detected' =
          detect_with_classifier(comp_doc.text, comp_env.reachable,
                                 comp_env.sensitive, "sensitive")
    /\ comp_pc' = "confidential"
    /\ UNCHANGED <<comp_doc, comp_env, regex_detected, confidential_detected,
                   user_pattern_detected, all_detected, comp_analysis>>
    /\ UNCHANGED <<validatorVars, scanVars, dedupVars, riskVars, maskVars, v2Vars, codefVars, upmVars, anchorVars, splitVars>>

\* stage 3: confidential_detected = self.detect_confidential_info(text)
CompConfidential ==
    /\ comp_pc = "confidential"
    /\ confidential_detected' =
          detect_with_classifier(comp_doc.text, comp_env.reachable,
                                 comp_env.confidential, "trade_secret")
    /\ comp_pc' = "user"
    /\ UNCHANGED <<comp_doc, comp_env, regex_detected, sensitive_detected,
                   user_pattern_detected, all_detected, comp_analysis>>
    /\ UNCHANGED <<validatorVars, scanVars, dedupVars, riskVars, maskVars, v2Vars, codefVars, upmVars, anchorVars, splitVars>>

\* stage 4: user_pattern_detected = self.detect_user_patterns(text)
CompUserPatterns ==
    /\ comp_pc = "user"
    /\ user_pattern_detected' =
          IF comp_env.user_patterns = <<>> THEN <<>>
          ELSE keyword_items(comp_doc.text, comp_env.user_patterns[1], 0)
    /\ comp_pc' = "merge"
    /\ UNCHANGED <<comp_doc, comp_env, regex_detected, sensitive_detected,
                   confidential_detected, all_detected, comp_analysis>>
    /\ UNCHANGED <<validatorVars, scanVars, dedupVars, riskVars, maskVars, v2Vars, codefVars, upmVars, anchorVars, splitVars>>

\* stage 5: the three merge loops and the sort by start
CompMerge ==
    /\ comp_pc = "merge"
    /\ all_detected' =
          SortByStart(
              merge_items(
                  merge_items(
                      merge_items(<<regex_detected, ranges_of(regex_detected)>>,
                                  sensitive_detected),
                      confidential_detected),
                  user_pattern_detected)[1])
    /\ comp_pc' = "filter"
    /\ UNCHANGED <<comp_doc, comp_env, regex_detected, sensitive_detected,
                   confidential_detected, user_pattern_detected, comp_analysis>>
    /\ UNCHANGED <<validatorVars, scanVars, dedupVars, riskVars, maskVars, v2Vars, codefVars, upmVars, anchorVars, splitVars>>

\* stage 5.5: all_detected = self._apply_checksum_filter(all_detected)
CompChecksumFilter ==
    /\ comp_pc = "filter"
    /\ all_detected' = _apply_checksum_filter(all_detected)
    /\ comp_pc' = "score"
    /\ UNCHANGED <<comp_doc, comp_env, regex_detected, sensitive_detected,
                   confidential_detected, user_pattern_detected, comp_analysis>>
    /\ UNCHANGED <<validatorVars, scanVars, dedupVars, riskVars, maskVars, v2Vars, codefVars, upmVars, anchorVars, splitVars>>

\* stage 6: analysis_result = self._create_analysis_from_detected(...)
CompScore ==
    /\ comp_pc = "score"
    /\ comp_analysis' = _create_analysis_from_detected(all_detected)
    /\ comp_pc' = "assess"
    /\ UNCHANGED <<comp_doc, comp_env, regex_detected, sensitive_detected,
                   confidential_detected, user_pattern_detected, all_detected>>
    /\ UNCHANGED <<validatorVars, scanVars, dedupVars, riskVars, maskVars, v2Vars, codefVars, upmVars, anchorVars, splitVars>>

\* analyze_with_llm: the parsed assessment, or _create_enhanced_analysis when
\* the health check fails or the answer does not parse
analyze_with_llm(doc, env) ==
    IF env.reachable /\ env.assessment.parsed
    THEN [ risk_level |-> env.assessment.risk_level,
           risk_score |-> env.assessment.risk_score,
           recommendations |-> <<>> ]
    ELSE _create_enhanced_analysis(
             detect_sensitive_info_regex(doc),
             detect_with_classifier(doc.text, env.reachable,
                                    env.sensitive, "sensitive"),
             detect_with_classifier(doc.text, env.reachable,
                                    env.confidential, "trade_secret"))

\* stage 7: llm_analysis = self.analyze_with_llm(text) and the merge of its
\* score and level; the function returns
CompAssess ==
    /\ comp_pc = "assess"
    /\ comp_analysis' =
          merge_llm_analysis(comp_analysis, analyze_with_llm(comp_doc, comp_env))
    /\ comp_pc' = "done"
    /\ UNCHANGED <<comp_doc, comp_env, regex_detected, sensitive_detected,
                   confidential_detected, user_pattern_detected, all_detected>>
    /\ UNCHANGED <<validatorVars, scanVars, dedupVars, riskVars, maskVars, v2Vars, codefVars, upmVars, anchorVars, splitVars>>

\* the caller goes on to the next document
CompNext ==
    /\ comp_pc = "done"
    /\ comp_pc' = "idle"
    /\ comp_doc' = NoResult /\ comp_env' = NoResult
    /\ regex_detected' = <<>> /\ sensitive_detected' = <<>>
    /\ confidential_detected' = <<>> /\ user_pattern_detected' = <<>>
    /\ all_detected' = <<>> /\ comp_analysis' = NoResult
    /\ UNCHANGED <<validatorVars, scanVars, dedupVars, riskVars, maskVars, v2Vars, codefVars, upmVars, anchorVars, splitVars>>

NextComp ==
    \/ CompCall
    \/ CompRegex
    \/ CompSensitive
    \/ CompConfidential
    \/ CompUserPatterns
    \/ CompMerge
    \/ CompChecksumFilter
    \/ CompScore
    \/ CompAssess
    \/ CompNext

SpecComp == InitComp /\ [][NextComp]_vars

\* C28 as stated: every span comprehensive_analysis returns lies inside the
\* text, start <= end, and its value is text[start:end].
C28_AsStated ==
    comp_pc = "done" =>
        \A i \in 1..Len(all_detected) :
            /\ 0 <= all_detected[i].start
            /\ all_detected[i].start <= all_detected[i].end
            /\ all_detected[i].end <= Len(comp_doc.text)
            /\ all_detected[i].value
                  = Slice(comp_doc.text, all_detected[i].start,
                          all_detected[i].end)

\* C29 as stated: when the classifier is out of reach for the whole run, the
\* risk_score returned is the score of the scoring formula on the span list
\* returned with it.
C29_AsStated ==
    (comp_pc = "done" /\ ~comp_env.reachable) =>
        comp_analysis.risk_score
            = _create_analysis_from_detected(all_detected).risk_score

\* C30 as stated: every span the regex scan records with confidence high
\* under the plain label of a type that has a validator is in the list
\* comprehensive_analysis returns.
C30_AsStated ==
    comp_pc = "done" =>
        \A i \in 1..Len(regex_detected) :
            (/\ regex_detected[i].confidence = "high"
             /\ regex_detected[i].type \in {"RRN", "FRN", "PASSPORT", "DL", "CARD"})
                => \E k \in 1..Len(all_detected) :
                      all_detected[k] = regex_detected[i]

====
